---- MODULE Spec2Model ----
(***************************************************************************)
(* Multi-domain OAuth orchestration and token binding.                     *)
(*                                                                         *)
(* Two implementations of the same routes are modelled side by side: the   *)
(* Cloudflare Worker (worker.js with api-handlers.js) and the Express      *)
(* backend (backend/server.js).  The variable impl says which one a        *)
(* behaviour runs; it never changes.                                       *)
(*                                                                         *)
(* Conventions.  JavaScript strings are TLA+ strings; undefined and null   *)
(* are the reserved strings Undefined and Null; a query or body parameter  *)
(* that is absent or empty (falsy) is Missing.  A JS object is a function  *)
(* from property names to values; a property that is not in the DOMAIN     *)
(* reads as undefined.  The clock now is Date.now(), in milliseconds.      *)
(* HMAC-SHA256, SHA-256 and the text encodings are free constructors       *)
(* (injective, and invertible only where the code inverts them).           *)
(***************************************************************************)
EXTENDS Integers, Sequences, FiniteSets, TLC

VARIABLES
    impl,          \* "worker" | "express"
    env,           \* the deployment's configuration
    now,           \* Date.now(), ms
    oauthStates,   \* OAUTH_STATES (KV) / oauthStateStore (Map): id -> record
    timers,        \* Express: the armed setTimeout deletions, {[id, due]}
    kvTtl,         \* Worker: the KV expirations, {[id, due]}
    userSessions,  \* Worker: USER_SESSIONS (KV): <<userId, domain>> -> JSON
    nextId,        \* how many random identifiers have been drawn
    gStarts,       \* the state values handed out by /auth/google
    googleCbs,     \* the /auth/google/callback requests, in arrival order
    airtableCbs,   \* the /auth/airtable/callback requests, in arrival order
    last,          \* the last answer of a single-step handler
    codec,         \* the codec exercised on its own: claims, token, verify
    page           \* the browser: hostname, localStorage authToken, user

vars == <<impl, env, now, oauthStates, timers, kvTtl, userSessions,
          nextId, gStarts, googleCbs, airtableCbs, last, codec, page>>

----------------------------------------------------------------------------
\* Program constants

STATE_TTL_MS == 600000

TOKEN_LIFETIME_S == 86400

\* Bounds of the model

MaxGoogleStarts == 1

MaxGoogleCbs == 2

MaxStarts == 2

MaxAirtableCbs == 2

----------------------------------------------------------------------------
\* JavaScript values

Undefined == "<undefined>"
Null == "<null>"
Missing == ""

\* The properties that hold a string, null or undefined.  (The others hold a
\* number, a token or a byte string, and are present or absent.)
StringKeys ==
    {"userId", "email", "name", "picture", "domain", "googleAccessToken",
     "googleRefreshToken", "airtableAccessToken", "airtableRefreshToken",
     "return_domain", "alg", "typ", "id", "access_token", "refresh_token",
     "error"}

\* obj.k for a string-valued property
Get(obj, k) == IF k \in DOMAIN obj THEN obj[k] ELSE Undefined

\* obj.k is a number (present)
HasNum(obj, k) == k \in DOMAIN obj

\* { ...obj, k: v }
With(obj, k, v) == [x \in DOMAIN obj \cup {k} |-> IF x = k THEN v ELSE obj[x]]

\* JS truthiness of a string-valued property value
Truthy(v) == v # Undefined /\ v # Null /\ v # Missing

----------------------------------------------------------------------------
\* Encodings

\* JSON.stringify of an object: members whose value is undefined are left out.
JSONstringify(obj) ==
    [json |-> [k \in {x \in DOMAIN obj : x \in StringKeys => obj[x] # Undefined}
                 |-> obj[k]]]

\* JSON.parse: throws on text that is not JSON.
JSONparse(text) ==
    IF "json" \in DOMAIN text
      THEN [ok |-> TRUE, value |-> text.json]
      ELSE [ok |-> FALSE, error |-> "SyntaxError"]

IsJsString(x) == "json" \in DOMAIN x \/ "text" \in DOMAIN x \/ "signingInput" \in DOMAIN x

\* new TextEncoder().encode(str) / new TextDecoder().decode(bytes)
TextEncode(str) == [utf8 |-> str]
TextDecode(bytes) == IF "utf8" \in DOMAIN bytes THEN bytes.utf8 ELSE [text |-> "U+FFFD"]

\* base64urlEncode(data): strings are UTF-8 encoded first; then btoa, with
\* + and / replaced and the = padding stripped.
base64urlEncode(data) ==
    [b64url |-> IF IsJsString(data) THEN TextEncode(data) ELSE data]

\* base64urlDecode(str): undo the replacements, pad, atob.  atob throws on
\* characters outside the alphabet.
base64urlDecode(str) ==
    IF "b64url" \in DOMAIN str
      THEN [ok |-> TRUE, bytes |-> str.b64url]
      ELSE [ok |-> FALSE, error |-> "InvalidCharacterError"]

base64urlDecodeToString(str) ==
    LET d == base64urlDecode(str)
    IN  IF d.ok THEN [ok |-> TRUE, str |-> TextDecode(d.bytes)] ELSE d

\* crypto.subtle.sign("HMAC", key, data) with key imported from secret
HMAC(secret, data) == [hmac |-> secret, over |-> data]

\* `${encodedHeader}.${encodedPayload}`
SigningInput(encodedHeader, encodedPayload) ==
    [signingInput |-> <<encodedHeader, encodedPayload>>]

----------------------------------------------------------------------------
\* Session token codec (Worker)

JwtHeader == [alg |-> "HS256", typ |-> "JWT"]

\* A token "h.p.s" is the sequence of its dot-separated segments.
signJWT(payload, secret) ==
    LET encodedHeader == base64urlEncode(JSONstringify(JwtHeader))
        encodedPayload == base64urlEncode(JSONstringify(payload))
        data == TextEncode(SigningInput(encodedHeader, encodedPayload))
        signature == HMAC(secret, data)
    IN  <<encodedHeader, encodedPayload, base64urlEncode(signature)>>

\* A variant that compares exp (seconds) with Date.now() (milliseconds).
ExpiredAtMillis(payload, t) ==
    HasNum(payload, "exp") /\ payload.exp # 0 /\ payload.exp < t

\* payload.exp && payload.exp < Date.now() / 1000
ExpiredAt(payload, t) ==
    HasNum(payload, "exp") /\ payload.exp # 0 /\ payload.exp * 1000 < t

\* A variant that honours the header's alg: "none" skips the signature check.
verifyJWTAlgNone(token, secret, t) ==
    IF Len(token) # 3 THEN [ok |-> FALSE, error |-> "Invalid JWT format"]
    ELSE
      LET data == TextEncode(SigningInput(token[1], token[2]))
          signature == base64urlDecode(token[3])
          header == base64urlDecodeToString(token[1])
          unsigned == header.ok /\ JSONparse(header.str).ok
                        /\ Get(JSONparse(header.str).value, "alg") = "none"
      IN  IF ~signature.ok THEN [ok |-> FALSE, error |-> signature.error]
          ELSE IF ~unsigned /\ signature.bytes # HMAC(secret, data)
            THEN [ok |-> FALSE, error |-> "Invalid JWT signature"]
          ELSE
            LET text == base64urlDecodeToString(token[2])
                parsed == IF text.ok THEN JSONparse(text.str) ELSE text
            IN  IF ~parsed.ok THEN [ok |-> FALSE, error |-> parsed.error]
                ELSE IF ExpiredAt(parsed.value, t)
                  THEN [ok |-> FALSE, error |-> "JWT token expired"]
                ELSE [ok |-> TRUE, payload |-> parsed.value]

verifyJWT(token, secret, t) ==
    IF Len(token) # 3 THEN [ok |-> FALSE, error |-> "Invalid JWT format"]
    ELSE
      LET data == TextEncode(SigningInput(token[1], token[2]))
          signature == base64urlDecode(token[3])
      IN  IF ~signature.ok THEN [ok |-> FALSE, error |-> signature.error]
          ELSE IF signature.bytes # HMAC(secret, data)
            THEN [ok |-> FALSE, error |-> "Invalid JWT signature"]
          ELSE
            LET text == base64urlDecodeToString(token[2])
                parsed == IF text.ok THEN JSONparse(text.str) ELSE text
            IN  IF ~parsed.ok THEN [ok |-> FALSE, error |-> parsed.error]
                ELSE IF ExpiredAt(parsed.value, t)
                  THEN [ok |-> FALSE, error |-> "JWT token expired"]
                ELSE [ok |-> TRUE, payload |-> parsed.value]

----------------------------------------------------------------------------
\* Session token codec (Express): jsonwebtoken's sign and verify

\* jwt.sign(payload, secret): HS256 over the same header.payload text; iat and
\* exp given in the payload are kept.
jwtSign(payload, secret) ==
    LET encodedHeader == base64urlEncode(JSONstringify(JwtHeader))
        encodedPayload == base64urlEncode(JSONstringify(payload))
        data == TextEncode(SigningInput(encodedHeader, encodedPayload))
    IN  <<encodedHeader, encodedPayload, base64urlEncode(HMAC(secret, data))>>

\* jwt.verify(token, secret): the token is decoded, then its signature is
\* checked, then exp against the clock in whole seconds (now >= exp: expired).
jwtVerify(token, secret, t) ==
    IF Len(token) # 3 THEN [ok |-> FALSE, error |-> "jwt malformed"]
    ELSE
      LET text == base64urlDecodeToString(token[2])
          parsed == IF text.ok THEN JSONparse(text.str) ELSE text
          data == TextEncode(SigningInput(token[1], token[2]))
          signature == base64urlDecode(token[3])
      IN  IF ~parsed.ok THEN [ok |-> FALSE, error |-> "invalid token"]
          ELSE IF ~signature.ok \/ signature.bytes # HMAC(secret, data)
            THEN [ok |-> FALSE, error |-> "invalid signature"]
          ELSE IF HasNum(parsed.value, "exp") /\ t \div 1000 >= parsed.value.exp
            THEN [ok |-> FALSE, error |-> "jwt expired"]
          ELSE [ok |-> TRUE, payload |-> parsed.value]

\* The codec of the implementation that is running.
Sign(payload, secret) ==
    IF impl = "worker" THEN signJWT(payload, secret) ELSE jwtSign(payload, secret)

Verify(token, secret, t) ==
    IF impl = "worker" THEN verifyJWT(token, secret, t) ELSE jwtVerify(token, secret, t)

----------------------------------------------------------------------------
\* The environment: domains, the providers' answers, the clock

JWT_SECRET == "jwt-secret"
OtherSecret == "another-secret"

Domains == {"shop-a.com", "shop-b.com"}

\* What a caller may name as its domain: also a case variant and a subdomain.
RequestDomains == Domains \cup {"Shop-A.com", "sub.shop-a.com"}

\* The instants the clock visits: a start, the state TTL later (exactly, and one
\* ms more), and around the expiry of a token issued at the start.
Instants ==
    {1500, 1500 + STATE_TTL_MS, 1501 + STATE_TTL_MS,
     (1 + TOKEN_LIFETIME_S) * 1000 - 1, (1 + TOKEN_LIFETIME_S) * 1000,
     (1 + TOKEN_LIFETIME_S) * 1000 + 1}

GoogleUsers == {"u1", "u2"}

\* The provider's userinfo answer for the owner of an access token.
GoogleProfile(u) ==
    [id |-> u, email |-> u \o "@mail.example", name |-> "Name " \o u,
     picture |-> "https://pics.example/" \o u]

\* The token endpoint's answer for user u, with or without a refresh token.
GoogleTokens(u, withRefresh) ==
    [access_token |-> "g-access-" \o u,
     refresh_token |-> IF withRefresh THEN "g-refresh-" \o u ELSE Undefined]

ErrorBody == [error |-> "invalid_grant"]

AirtableBodies ==
    {[access_token |-> "at-access-1", refresh_token |-> "at-refresh-1"],
     [access_token |-> "at-access-2", refresh_token |-> Undefined]}

\* Math.floor(Date.now() / 1000)
NowSeconds(t) == t \div 1000

\* A variant that stamps the token in milliseconds.
tokenPayloadMillis(googleUser, tokens, return_domain, t) ==
    [userId |-> Get(googleUser, "id"),
     email |-> Get(googleUser, "email"),
     name |-> Get(googleUser, "name"),
     picture |-> Get(googleUser, "picture"),
     domain |-> return_domain,
     googleAccessToken |-> Get(tokens, "access_token"),
     googleRefreshToken |-> Get(tokens, "refresh_token"),
     airtableAccessToken |-> Null,
     airtableRefreshToken |-> Null,
     iat |-> t,
     exp |-> t + TOKEN_LIFETIME_S * 1000]

\* tokenPayload of the primary callback
tokenPayload(googleUser, tokens, return_domain, t) ==
    [userId |-> Get(googleUser, "id"),
     email |-> Get(googleUser, "email"),
     name |-> Get(googleUser, "name"),
     picture |-> Get(googleUser, "picture"),
     domain |-> return_domain,
     googleAccessToken |-> Get(tokens, "access_token"),
     googleRefreshToken |-> Get(tokens, "refresh_token"),
     airtableAccessToken |-> Null,
     airtableRefreshToken |-> Null,
     iat |-> NowSeconds(t),
     exp |-> NowSeconds(t) + TOKEN_LIFETIME_S]

\* A variant that gives the re-issued token a new lifetime.
updatedTokenPayloadRenewed(originalDecoded, tokens, t) ==
    With(With(With(With(originalDecoded,
        "airtableAccessToken", Get(tokens, "access_token")),
        "airtableRefreshToken", Get(tokens, "refresh_token")),
        "iat", t \div 1000),
        "exp", (t \div 1000) + TOKEN_LIFETIME_S)

\* updatedTokenPayload of the secondary callback:
\* { ...originalDecoded, airtableAccessToken, airtableRefreshToken, iat }
updatedTokenPayload(originalDecoded, tokens, t) ==
    With(With(With(originalDecoded,
        "airtableAccessToken", Get(tokens, "access_token")),
        "airtableRefreshToken", Get(tokens, "refresh_token")),
        "iat", NowSeconds(t))

\* The instants the flows are run at: a start, the state TTL later (exactly,
\* and one ms more).
FlowInstants == {1500, 1500 + STATE_TTL_MS, 1501 + STATE_TTL_MS}

\* The clock advances to a later instant.
Advance(instants) ==
    /\ \E t \in instants : t > now /\ now' = t
    /\ UNCHANGED <<page, impl, env, oauthStates, timers, kvTtl, userSessions, nextId,
                   gStarts, googleCbs, airtableCbs, last, codec>>

Tick == Advance(FlowInstants)

----------------------------------------------------------------------------
\* Responses

NoLocation == [none |-> TRUE]

\* A plain-text body (a JSON body is the object itself).
Text(str) == [text |-> str]

Respond(status, body) == [status |-> status, body |-> body, location |-> NoLocation]

\* Response.redirect(url, 302) / res.redirect(url)
Redirect(location) == [status |-> 302, body |-> Text(""), location |-> location]

NoResponse == [status |-> 0, body |-> Text(""), location |-> NoLocation]

NoCall == [handler |-> "none"]

\* localStorage.getItem("authToken") === null
NoStoredToken == [none |-> TRUE]

\* useState<User | null>(null)
NoUser == [none |-> TRUE]

\* No page has been opened.
PageIdle ==
    [hostname |-> Missing, authToken |-> NoStoredToken, user |-> NoUser,
     token |-> NoStoredToken, at |-> 0]

----------------------------------------------------------------------------
\* Domain authorization guard: POST /api/verify-token

\* A variant that compares host names without regard to case.
LowerCase(d) == IF d = "Shop-A.com" THEN "shop-a.com" ELSE d

DomainMismatchIgnoringCase(decoded, requestDomain) ==
    LowerCase(Get(decoded, "domain")) # LowerCase(requestDomain)

\* decoded.domain !== requestDomain
DomainMismatch(decoded, requestDomain) == Get(decoded, "domain") # requestDomain

\* A variant that hands back the whole claim set of the token.
handleVerifyTokenAllClaims(token, requestDomain, t) ==
    IF token = <<>> \/ ~Truthy(requestDomain)
      THEN Respond(400, [error |-> "Token and domain are required"])
    ELSE
      LET v == Verify(token, JWT_SECRET, t)
      IN  IF ~v.ok THEN Respond(401, [valid |-> FALSE, error |-> "Invalid token"])
          ELSE IF DomainMismatch(v.payload, requestDomain)
            THEN Respond(403, [error |-> "Token domain mismatch"])
          ELSE Respond(200, [valid |-> TRUE, user |-> JSONstringify(v.payload).json])

handleVerifyToken(token, requestDomain, t) ==
    IF token = <<>> \/ ~Truthy(requestDomain)
      THEN Respond(400, [error |-> "Token and domain are required"])
    ELSE
      LET v == Verify(token, JWT_SECRET, t)
      IN  IF ~v.ok THEN Respond(401, [valid |-> FALSE, error |-> "Invalid token"])
          ELSE IF DomainMismatch(v.payload, requestDomain)
            THEN Respond(403, [error |-> "Token domain mismatch"])
          ELSE Respond(200,
                 [valid |-> TRUE,
                  user |-> JSONstringify(
                     [userId |-> Get(v.payload, "userId"),
                      email |-> Get(v.payload, "email"),
                      name |-> Get(v.payload, "name"),
                      picture |-> Get(v.payload, "picture"),
                      domain |-> Get(v.payload, "domain")]).json])

\* One call of the guard.
VerifyToken(token, requestDomain) ==
    /\ last' = [handler |-> "verify-token", token |-> token,
                domain |-> requestDomain, at |-> now,
                resp |-> handleVerifyToken(token, requestDomain, now)]
    /\ UNCHANGED <<page, impl, env, now, oauthStates, timers, kvTtl,
                   userSessions, nextId, gStarts, googleCbs, airtableCbs, codec>>

----------------------------------------------------------------------------
\* The codec on its own: claim sets are signed, tokens are altered, verified
\* and presented to the guard.

NoResult == [ok |-> FALSE, error |-> "not verified"]

CodecIdle ==
    [phase |-> "idle", claims |-> [domain |-> Undefined], key |-> JWT_SECRET,
     token |-> <<>>, tamper |-> "none", signedAt |-> 0, verifiedAt |-> 0,
     result |-> NoResult]

\* Claim sets as the two callbacks build them, and with exp zero or absent.
CodecClaims(t) ==
    LET fresh == {tokenPayload(GoogleProfile("u1"), GoogleTokens("u1", r), d, t) :
                    r \in BOOLEAN, d \in Domains}
        connected == {updatedTokenPayload(c, b, t) : c \in fresh,
                        b \in {[access_token |-> "at-access-1",
                                refresh_token |-> "at-refresh-1"]}}
        all == fresh \cup connected
    IN  all \cup {With(c, "exp", 0) : c \in all}
            \cup {[k \in DOMAIN c \ {"exp"} |-> c[k]] : c \in all}

OtherDomain(d) == IF d = "shop-a.com" THEN "shop-b.com" ELSE "shop-a.com"

TamperKinds ==
    {"payload-domain", "payload-exp", "header", "drop-signature",
     "extra-segment", "junk-signature", "foreign-signature"}

\* What a holder of the token (without the secret) can make of it.
Tampered(token, claims, kind) ==
    CASE kind = "payload-domain" ->
           <<token[1],
             base64urlEncode(JSONstringify(
                With(claims, "domain", OtherDomain(Get(claims, "domain"))))),
             token[3]>>
      [] kind = "payload-exp" ->
           <<token[1],
             base64urlEncode(JSONstringify(
                With(claims, "exp", 1000 * TOKEN_LIFETIME_S))),
             token[3]>>
      [] kind = "header" ->
           <<base64urlEncode(JSONstringify([alg |-> "none", typ |-> "JWT"])),
             token[2], token[3]>>
      [] kind = "drop-signature" -> <<token[1], token[2]>>
      [] kind = "extra-segment" -> token \o <<token[3]>>
      [] kind = "junk-signature" -> <<token[1], token[2], [notBase64 |-> "%%"]>>
      [] kind = "foreign-signature" ->
           <<token[1], token[2],
             base64urlEncode(HMAC(OtherSecret,
                TextEncode(SigningInput(token[1], token[2]))))>>

CodecSign(c, key) ==
    /\ codec.phase = "idle"
    /\ codec' = [CodecIdle EXCEPT !.phase = "signed", !.claims = c, !.key = key,
                   !.token = signJWT(c, key), !.signedAt = now]
    /\ last' = NoCall
    /\ UNCHANGED <<page, impl, env, now, oauthStates, timers, kvTtl,
                   userSessions, nextId, gStarts, googleCbs, airtableCbs>>

CodecTamper(kind) ==
    /\ codec.phase = "signed"
    /\ codec.tamper = "none"
    /\ codec' = [codec EXCEPT !.tamper = kind,
                   !.token = Tampered(codec.token, codec.claims, kind)]
    /\ last' = NoCall
    /\ UNCHANGED <<page, impl, env, now, oauthStates, timers, kvTtl,
                   userSessions, nextId, gStarts, googleCbs, airtableCbs>>

CodecVerify ==
    /\ codec.phase = "signed"
    /\ codec' = [codec EXCEPT !.phase = "verified", !.verifiedAt = now,
                   !.result = verifyJWT(codec.token, JWT_SECRET, now)]
    /\ last' = NoCall
    /\ UNCHANGED <<page, impl, env, now, oauthStates, timers, kvTtl,
                   userSessions, nextId, gStarts, googleCbs, airtableCbs>>

CodecGuard ==
    /\ codec.phase = "verified"
    /\ last = NoCall
    /\ \E d \in RequestDomains \cup {Missing} : VerifyToken(codec.token, d)

InitCommon ==
    /\ impl \in {"worker", "express"}
    /\ env = [airtableConfigured |-> TRUE]
    /\ now = 1500
    /\ oauthStates = <<>>
    /\ timers = {}
    /\ kvTtl = {}
    /\ userSessions = <<>>
    /\ nextId = 0
    /\ gStarts = {}
    /\ googleCbs = <<>>
    /\ airtableCbs = <<>>
    /\ last = NoCall
    /\ codec = CodecIdle
    /\ page = PageIdle

\* The clock advances until the token is verified.
CodecTick == codec.phase \in {"idle", "signed"} /\ Advance(Instants)

CodecNext ==
    \/ CodecTick
    \/ \E c \in CodecClaims(now), key \in {JWT_SECRET, OtherSecret} : CodecSign(c, key)
    \/ \E kind \in TamperKinds : CodecTamper(kind)
    \/ CodecVerify
    \/ CodecGuard

SpecCodec == InitCommon /\ [][CodecNext]_vars

----------------------------------------------------------------------------
\* Primary flow: GET /auth/google and GET /auth/google/callback

NoObject == [none |-> TRUE]

\* A query parameter that holds a structured value and is not there.
AbsentParam == [absent |-> TRUE]

\* `${env.OAUTH_REDIRECT_URL || url.origin}/auth/.../callback`,
\* `${BACKEND_URL}/auth/.../callback`
CallbackUrl(path) == [origin |-> "https://auth.example", path |-> path]

\* btoa(JSON.stringify(stateData)),
\* Buffer.from(JSON.stringify(stateData)).toString("base64")
EncodeState(stateData) == [b64 |-> JSONstringify(stateData)]

\* JSON.parse(atob(state)),
\* JSON.parse(Buffer.from(state, "base64").toString())
DecodeState(state) ==
    IF "b64" \in DOMAIN state THEN JSONparse(state.b64)
    ELSE [ok |-> FALSE, error |-> "InvalidCharacterError"]

\* A variant that takes the limit in seconds.
StateTooOldInSeconds(stateData, t) ==
    HasNum(stateData, "timestamp")
      /\ t - stateData.timestamp > STATE_TTL_MS \div 1000

\* A variant that already refuses a state of exactly ten minutes.
StateTooOldAtLimit(stateData, t) ==
    HasNum(stateData, "timestamp") /\ t - stateData.timestamp >= STATE_TTL_MS

\* A variant that subtracts the wrong way round.
StateTooOldReversed(stateData, t) ==
    HasNum(stateData, "timestamp") /\ stateData.timestamp - t > STATE_TTL_MS

\* Date.now() - stateData.timestamp > 10 * 60 * 1000  (false when the
\* timestamp is missing: NaN compares false)
StateTooOld(stateData, t) ==
    HasNum(stateData, "timestamp") /\ t - stateData.timestamp > STATE_TTL_MS

handleGoogleAuth(return_domain, t) ==
    IF ~Truthy(return_domain)
      THEN Respond(400, IF impl = "worker"
                          THEN Text("Missing return_domain parameter")
                          ELSE [error |-> "Missing return_domain parameter"])
    ELSE Redirect(
           [url |-> "https://accounts.google.com/o/oauth2/v2/auth",
            client_id |-> "GOOGLE_CLIENT_ID",
            redirect_uri |-> CallbackUrl("/auth/google/callback"),
            response_type |-> "code",
            scope |-> "openid email profile",
            access_type |-> "offline",
            state |-> EncodeState([return_domain |-> return_domain,
                                   timestamp |-> t])])

\* GET /auth/google?return_domain=...
GoogleAuth(return_domain) ==
    LET resp == handleGoogleAuth(return_domain, now)
    IN  /\ resp.status = 302 => Cardinality(gStarts) < MaxGoogleStarts
        /\ last' = [handler |-> "google-auth", domain |-> return_domain,
                    at |-> now, resp |-> resp]
        /\ gStarts' = IF resp.status = 302
                        THEN gStarts \cup {[domain |-> return_domain,
                                            state |-> resp.location.state]}
                        ELSE gStarts
        /\ UNCHANGED <<page, impl, env, now, oauthStates, timers, kvTtl,
                       userSessions, nextId, googleCbs, airtableCbs, codec>>

\* The checks of the callback before it calls the provider; NoResponse when
\* they all pass.
GoogleCallbackRefusal(code, state, error, t) ==
    IF Truthy(error) THEN Respond(400, Text("Authentication failed: " \o error))
    ELSE IF impl = "worker" /\ (~Truthy(code) \/ state = AbsentParam)
      THEN Respond(400, Text("Missing code or state parameter"))
    ELSE IF ~Truthy(code)
      THEN Respond(400, Text("No authorization code received"))
    ELSE IF state = AbsentParam
      THEN Respond(400, Text("No state parameter received"))
    ELSE IF ~DecodeState(state).ok
      THEN Respond(400, Text("Invalid state parameter"))
    ELSE IF StateTooOld(DecodeState(state).value, t)
      THEN Respond(400, Text("Authentication session expired"))
    ELSE NoResponse

\* The callbacks a browser (or anyone) may send.
GoogleCallbackRequests ==
    LET states == {s.state : s \in gStarts}
                    \cup {[b64 |-> [text |-> "garbage"]],
                          EncodeState([return_domain |-> "shop-b.com"])}
    IN  {[code |-> "g-code", state |-> s, error |-> Missing] : s \in states}
          \cup {[code |-> Missing, state |-> s, error |-> Missing] : s \in states}
          \cup {[code |-> "g-code", state |-> AbsentParam, error |-> Missing],
                [code |-> Missing, state |-> AbsentParam, error |-> "access_denied"]}

\* GET /auth/google/callback arrives: up to the token request.
GoogleCallbackBegin(q) ==
    LET refusal == GoogleCallbackRefusal(q.code, q.state, q.error, now)
        passed == refusal = NoResponse
    IN  /\ Len(googleCbs) < MaxGoogleCbs
        /\ googleCbs' = Append(googleCbs,
              [pc |-> IF passed THEN "exchange" ELSE "done",
               code |-> q.code, state |-> q.state, error |-> q.error,
               began |-> now,
               stateData |-> IF passed THEN DecodeState(q.state).value ELSE NoObject,
               exchange |-> "none", tokens |-> NoObject, owner |-> "nobody",
               profile |-> "none", googleUser |-> NoObject,
               signedAt |-> 0, resp |-> refusal])
        /\ UNCHANGED <<page, impl, env, now, oauthStates, timers, kvTtl,
                       userSessions, nextId, gStarts, airtableCbs, last, codec>>

\* What a provider's endpoint may answer: a 2xx with a body, another status
\* with an error body, or nothing (the request fails).
GoogleTokenAnswers ==
    {[kind |-> "ok", body |-> GoogleTokens("u1", TRUE), owner |-> "u1"],
     [kind |-> "ok", body |-> GoogleTokens("u2", FALSE), owner |-> "u2"],
     [kind |-> "rejected", body |-> ErrorBody, owner |-> "nobody"],
     [kind |-> "neterr", body |-> NoObject, owner |-> "nobody"]}

GoogleProfileAnswers == {"ok", "rejected", "neterr"}

\* The error an HTTP call throws, Missing when it returns: fetch rejects only
\* when the request fails, axios also on a status outside 2xx.
FetchError(kind) ==
    IF kind = "neterr" THEN "fetch failed"
    ELSE IF kind = "rejected" /\ impl = "express"
      THEN "Request failed with status code 400"
    ELSE Missing

\* The token endpoint answers the callback's code exchange.
GoogleTokenAnswer(i, ans) ==
    LET req == googleCbs[i]
        thrown == IF FetchError(ans.kind) # Missing THEN FetchError(ans.kind)
                  ELSE IF ~Truthy(Get(ans.body, "access_token"))
                    THEN "No access token received from Google"
                  ELSE Missing
    IN  /\ req.pc = "exchange"
        /\ googleCbs' = [googleCbs EXCEPT ![i] =
              IF thrown # Missing
                THEN [req EXCEPT !.pc = "done", !.exchange = ans.kind,
                        !.resp = Respond(500, Text("Authentication failed: " \o thrown))]
                ELSE [req EXCEPT !.pc = "profile", !.exchange = ans.kind,
                        !.tokens = ans.body, !.owner = ans.owner]]
        /\ UNCHANGED <<page, impl, env, now, oauthStates, timers, kvTtl,
                       userSessions, nextId, gStarts, airtableCbs, last, codec>>

\* `${v}` in a template literal: undefined and null are spelled out.
TemplateString(v) ==
    IF v = Undefined THEN "undefined" ELSE IF v = Null THEN "null" ELSE v

\* `session:${userId}:${domain}`
SessionKey(userId, domain) == <<TemplateString(userId), TemplateString(domain)>>

\* USER_SESSIONS.put(`session:${userId}:${domain}`, JSON.stringify(payload))
SessionPut(sessions, userId, domain, payload) ==
    [k \in DOMAIN sessions \cup {SessionKey(userId, domain)} |->
        IF k = SessionKey(userId, domain) THEN JSONstringify(payload)
        ELSE sessions[k]]

\* `https://${domain}/?token=${jwt}` and `...&airtable_connected=true`
ReturnUrl(domain, jwt, connected) ==
    [host |-> domain, token |-> jwt, airtable_connected |-> connected]

\* The userinfo endpoint answers; the token is minted, the session stored and
\* the browser sent back.  The Worker does not look at the answer's status.
GoogleProfileAnswer(i, kind) ==
    LET req == googleCbs[i]
        thrown == FetchError(kind)
        googleUser == IF kind = "ok" THEN GoogleProfile(req.owner) ELSE ErrorBody
        return_domain == Get(req.stateData, "return_domain")
        payload == tokenPayload(googleUser, req.tokens, return_domain, now)
        jwtToken == Sign(payload, JWT_SECRET)
    IN  /\ req.pc = "profile"
        /\ googleCbs' = [googleCbs EXCEPT ![i] =
              IF thrown # Missing
                THEN [req EXCEPT !.pc = "done", !.profile = kind,
                        !.resp = Respond(500, Text("Authentication failed: " \o thrown))]
                ELSE [req EXCEPT !.pc = "done", !.profile = kind,
                        !.googleUser = googleUser, !.signedAt = now,
                        !.resp = Redirect(ReturnUrl(return_domain, jwtToken, FALSE))]]
        /\ userSessions' =
              IF thrown = Missing /\ impl = "worker"
                THEN SessionPut(userSessions, Get(googleUser, "id"), return_domain, payload)
                ELSE userSessions
        /\ UNCHANGED <<page, impl, env, now, oauthStates, timers, kvTtl,
                       nextId, gStarts, airtableCbs, last, codec>>

----------------------------------------------------------------------------
\* Secondary flow: GET /auth/airtable and GET /auth/airtable/callback

\* crypto.randomUUID(), crypto.randomBytes(16).toString("hex"): the n-th draw
StateId(n) == "state-" \o ToString(n)

\* generateCodeVerifier(): 32 random bytes, base64url
generateCodeVerifier(n) == base64urlEncode([random |-> n])

\* A variant that sends the verifier itself as the challenge.
generateCodeChallengePlain(verifier) == verifier

\* generateCodeChallenge(verifier): base64url(SHA-256(verifier))
generateCodeChallenge(verifier) == base64urlEncode([sha256 |-> TextEncode(verifier)])

\* The store keeps JSON text in KV (Worker) and the object in the Map (Express).
StoredState(stateData) ==
    IF impl = "worker" THEN JSONstringify(stateData) ELSE stateData

LoadState(stored) == IF impl = "worker" THEN JSONparse(stored).value ELSE stored

\* OAUTH_STATES.put(id, value), oauthStateStore.set(id, value)
StorePut(store, id, value) ==
    [k \in DOMAIN store \cup {id} |-> IF k = id THEN value ELSE store[k]]

\* A variant that leaves the record in place.
StoreDeleteKept(store, id) == store

\* OAUTH_STATES.delete(id), oauthStateStore.delete(id)
StoreDelete(store, id) == [k \in DOMAIN store \ {id} |-> store[k]]

\* The refusals of the start; NoResponse when the flow may begin.
AirtableAuthRefusal(token, requestDomain, t) ==
    IF ~env.airtableConfigured
      THEN Respond(500, Text(IF impl = "worker"
          THEN "Airtable OAuth integration is not configured"
          ELSE "Airtable OAuth integration is not configured on this server. "
                 \o "Please contact the administrator."))
    ELSE IF token = <<>> \/ ~Truthy(requestDomain)
      THEN Respond(400, IF impl = "worker"
                          THEN Text("Missing token or domain parameter")
                          ELSE [error |-> "Missing token or domain parameter"])
    ELSE IF ~Verify(token, JWT_SECRET, t).ok
      THEN Respond(401, IF impl = "worker" THEN Text("Invalid token")
                        ELSE [error |-> "Invalid token"])
    ELSE IF DomainMismatch(Verify(token, JWT_SECRET, t).payload, requestDomain)
      THEN Respond(403, IF impl = "worker" THEN Text("Token domain mismatch")
                        ELSE [error |-> "Token domain mismatch"])
    ELSE NoResponse

\* The tokens the service has handed out, and what their holders can present.
IssuedTokens ==
    {googleCbs[i].resp.location.token :
        i \in {j \in 1..Len(googleCbs) : googleCbs[j].resp.status = 302}}
      \cup {airtableCbs[i].resp.location.token :
        i \in {j \in 1..Len(airtableCbs) : airtableCbs[j].resp.status = 302}}

\* The payload segment of a token, read without verifying it.
DecodeClaims(token) == JSONparse(base64urlDecodeToString(token[2]).str).value

PresentableTokens ==
    IssuedTokens
      \cup {Tampered(tk, DecodeClaims(tk), "payload-domain") : tk \in IssuedTokens}
      \cup {<<>>}

\* GET /auth/airtable?token=...&domain=...
AirtableAuth(token, requestDomain) ==
    LET refusal == AirtableAuthRefusal(token, requestDomain, now)
        stateId == StateId(nextId + 1)
        codeVerifier == generateCodeVerifier(nextId + 1)
        stateData == [token |-> token, domain |-> requestDomain,
                      codeVerifier |-> codeVerifier, timestamp |-> now]
        started == refusal = NoResponse
    IN  /\ started => nextId < MaxStarts
        /\ last' = [handler |-> "airtable-auth", token |-> token,
                    domain |-> requestDomain, at |-> now,
                    resp |-> IF ~started THEN refusal
                             ELSE Redirect(
                               [url |-> "https://airtable.com/oauth2/v1/authorize",
                                client_id |-> "AIRTABLE_CLIENT_ID",
                                redirect_uri |-> CallbackUrl("/auth/airtable/callback"),
                                response_type |-> "code",
                                scope |-> "data.records:read data.records:write schema.bases:read",
                                state |-> stateId,
                                code_challenge |-> generateCodeChallenge(codeVerifier),
                                code_challenge_method |-> "S256"])]
        /\ nextId' = IF started THEN nextId + 1 ELSE nextId
        /\ oauthStates' = IF started
                            THEN StorePut(oauthStates, stateId, StoredState(stateData))
                            ELSE oauthStates
        /\ timers' = IF started /\ impl = "express"
                       THEN timers \cup {[id |-> stateId, due |-> now + STATE_TTL_MS]}
                       ELSE timers
        /\ kvTtl' = IF started /\ impl = "worker"
                      THEN kvTtl \cup {[id |-> stateId, due |-> now + STATE_TTL_MS]}
                      ELSE kvTtl
        /\ UNCHANGED <<page, impl, env, now, userSessions, gStarts, googleCbs,
                       airtableCbs, codec>>

\* setTimeout(() => oauthStateStore.delete(stateId), 10 * 60 * 1000) fires.
TimerFire(tm) ==
    /\ tm \in timers
    /\ now >= tm.due
    /\ timers' = timers \ {tm}
    /\ oauthStates' = StoreDelete(oauthStates, tm.id)
    /\ UNCHANGED <<page, impl, env, now, kvTtl, userSessions, nextId, gStarts,
                   googleCbs, airtableCbs, last, codec>>

\* The KV store drops a key whose expirationTtl has passed.
KvExpire(e) ==
    /\ e \in kvTtl
    /\ now >= e.due
    /\ kvTtl' = kvTtl \ {e}
    /\ oauthStates' = StoreDelete(oauthStates, e.id)
    /\ UNCHANGED <<page, impl, env, now, timers, userSessions, nextId, gStarts,
                   googleCbs, airtableCbs, last, codec>>

\* The setInterval sweep: every record older than ten minutes is deleted.
Sweep ==
    LET stale == {id \in DOMAIN oauthStates :
                    now - oauthStates[id].timestamp > STATE_TTL_MS}
    IN  /\ impl = "express"
        /\ stale # {}
        /\ oauthStates' = [k \in DOMAIN oauthStates \ stale |-> oauthStates[k]]
        /\ UNCHANGED <<page, impl, env, now, timers, kvTtl, userSessions, nextId,
                       gStarts, googleCbs, airtableCbs, last, codec>>

\* A variant that only looks at the state parameter.
AirtableCallbackRefusalStateOnly(code, state, error) ==
    IF ~Truthy(state)
      THEN Respond(400, Text("Missing authorization code or state"))
    ELSE NoResponse

\* The checks of the callback on its parameters; NoResponse when they pass.
AirtableCallbackRefusal(code, state, error) ==
    IF Truthy(error)
      THEN Respond(400, Text("Airtable authentication failed: " \o error))
    ELSE IF ~Truthy(code) \/ ~Truthy(state)
      THEN Respond(400, Text("Missing authorization code or state"))
    ELSE NoResponse

AirtableCallbackRequests ==
    {[code |-> "at-code", state |-> s, error |-> Missing] :
        s \in {StateId(n) : n \in 1..nextId} \cup {"state-unknown", Missing}}
      \cup {[code |-> Missing, state |-> StateId(1), error |-> Missing],
            [code |-> Missing, state |-> StateId(1), error |-> "access_denied"]}

\* The callbacks that have removed the record of a state identifier.
Consumed(id) ==
    \E j \in 1..Len(airtableCbs) :
        airtableCbs[j].state = id /\ airtableCbs[j].found /\ airtableCbs[j].deleted

\* The age check of the callback, after the record is deleted.
AfterDelete(req, t) ==
    IF StateTooOld(req.rec, t)
      THEN [req EXCEPT !.pc = "done", !.deleted = TRUE, !.checkedAt = t,
              !.resp = Respond(400, Text("Authentication session expired"))]
      ELSE [req EXCEPT !.pc = "basic", !.deleted = TRUE, !.checkedAt = t]

\* GET /auth/airtable/callback arrives: the parameters are checked and the
\* record is looked up.  Express deletes the record in the same turn; the
\* Worker awaits the lookup and then awaits the deletion.
AirtableCallbackBegin(q) ==
    LET refusal == AirtableCallbackRefusal(q.code, q.state, q.error)
        found == refusal = NoResponse /\ q.state \in DOMAIN oauthStates
        req == [pc |-> "done", code |-> q.code, state |-> q.state,
                error |-> q.error, began |-> now,
                afterConsume |-> Consumed(q.state),
                found |-> found,
                rec |-> IF found THEN LoadState(oauthStates[q.state]) ELSE NoObject,
                deleted |-> FALSE, checkedAt |-> 0,
                basic |-> "none", fallback |-> "none", tokens |-> NoObject,
                signedAt |-> 0, resp |-> refusal]
    IN  /\ Len(airtableCbs) < MaxAirtableCbs
        /\ airtableCbs' = Append(airtableCbs,
              IF refusal # NoResponse THEN req
              ELSE IF ~found
                THEN [req EXCEPT !.resp =
                        Respond(400, Text("Invalid or expired authentication session"))]
              ELSE IF impl = "worker" THEN [req EXCEPT !.pc = "delete"]
              ELSE AfterDelete(req, now))
        /\ oauthStates' = IF found /\ impl = "express"
                            THEN StoreDelete(oauthStates, q.state)
                            ELSE oauthStates
        /\ UNCHANGED <<page, impl, env, now, timers, kvTtl, userSessions, nextId,
                       gStarts, googleCbs, last, codec>>

\* Worker: await OAUTH_STATES.delete(state) completes, then the age check.
AirtableCallbackDelete(i) ==
    /\ airtableCbs[i].pc = "delete"
    /\ airtableCbs' = [airtableCbs EXCEPT ![i] = AfterDelete(airtableCbs[i], now)]
    /\ oauthStates' = StoreDelete(oauthStates, airtableCbs[i].state)
    /\ kvTtl' = {e \in kvTtl : e.id # airtableCbs[i].state}
    /\ UNCHANGED <<page, impl, env, now, timers, userSessions, nextId, gStarts,
                   googleCbs, last, codec>>

AirtableAnswers ==
    {[kind |-> "ok", body |-> b] : b \in AirtableBodies}
      \cup {[kind |-> "rejected", body |-> ErrorBody],
            [kind |-> "neterr", body |-> NoObject]}

\* A variant that does not look for the access token in the answer.
AirtableIssueUnchecked(req, tokens, t) ==
    Redirect(ReturnUrl(req.rec.domain,
        Sign(updatedTokenPayload(Verify(req.rec.token, JWT_SECRET, t).payload,
                                 tokens, t), JWT_SECRET), TRUE))

\* The rest of the callback once the token endpoint has given tokens: the
\* original token is verified again, extended, signed and sent back.
AirtableIssue(req, tokens, t) ==
    LET originalDecoded == Verify(req.rec.token, JWT_SECRET, t)
        payload == updatedTokenPayload(originalDecoded.payload, tokens, t)
    IN  IF ~Truthy(Get(tokens, "access_token"))
          THEN Respond(500, Text("Airtable authentication failed: "
                                   \o "No access token received from Airtable"))
        ELSE IF ~originalDecoded.ok
          THEN Respond(500, Text("Airtable authentication failed: "
                                   \o originalDecoded.error))
        ELSE Redirect(ReturnUrl(req.rec.domain, Sign(payload, JWT_SECRET), TRUE))

\* The session the Worker stores with a re-issued token.
AirtableSession(sessions, req, resp) ==
    IF resp.status = 302 /\ impl = "worker"
      THEN SessionPut(sessions, Get(DecodeClaims(resp.location.token), "userId"),
                      req.rec.domain, DecodeClaims(resp.location.token))
      ELSE sessions

\* The token endpoint answers the exchange sent with HTTP Basic credentials.
\* Any failure, and any status outside 2xx, leads to the second attempt.
AirtableBasicAnswer(i, ans) ==
    LET req == airtableCbs[i]
        resp == AirtableIssue(req, ans.body, now)
    IN  /\ req.pc = "basic"
        /\ airtableCbs' = [airtableCbs EXCEPT ![i] =
              IF ans.kind # "ok"
                THEN [req EXCEPT !.pc = "fallback", !.basic = ans.kind]
                ELSE [req EXCEPT !.pc = "done", !.basic = ans.kind,
                        !.tokens = ans.body, !.signedAt = now, !.resp = resp]]
        /\ userSessions' = IF ans.kind = "ok"
                             THEN AirtableSession(userSessions, req, resp)
                             ELSE userSessions
        /\ UNCHANGED <<page, impl, env, now, oauthStates, timers, kvTtl, nextId,
                       gStarts, googleCbs, last, codec>>

\* The token endpoint answers the exchange sent with the credentials in the
\* body.  The Worker reads the body whatever the status.
AirtableFallbackAnswer(i, ans) ==
    LET req == airtableCbs[i]
        thrown == FetchError(ans.kind)
        resp == IF thrown # Missing
                  THEN Respond(500, Text("Airtable authentication failed: " \o thrown))
                  ELSE AirtableIssue(req, ans.body, now)
    IN  /\ req.pc = "fallback"
        /\ airtableCbs' = [airtableCbs EXCEPT ![i] =
              [req EXCEPT !.pc = "done", !.fallback = ans.kind,
                 !.tokens = IF thrown = Missing THEN ans.body ELSE NoObject,
                 !.signedAt = now, !.resp = resp]]
        /\ userSessions' = AirtableSession(userSessions, req, resp)
        /\ UNCHANGED <<page, impl, env, now, oauthStates, timers, kvTtl, nextId,
                       gStarts, googleCbs, last, codec>>

----------------------------------------------------------------------------
\* The primary flow: sign-ins for the domains, callbacks of any kind

Init == InitCommon

Next ==
    \/ Tick
    \/ \E d \in Domains \cup {Missing} : GoogleAuth(d)
    \/ \E q \in GoogleCallbackRequests : GoogleCallbackBegin(q)
    \/ \E i \in 1..Len(googleCbs), ans \in GoogleTokenAnswers : GoogleTokenAnswer(i, ans)
    \/ \E i \in 1..Len(googleCbs), kind \in GoogleProfileAnswers : GoogleProfileAnswer(i, kind)

Spec == Init /\ [][Next]_vars

----------------------------------------------------------------------------
\* The secondary flow, for a user who has signed in

\* The callback record of a completed sign-in of user u for domain d at t.
SignedIn(d, u, t) ==
    [pc |-> "done", code |-> "g-code",
     state |-> EncodeState([return_domain |-> d, timestamp |-> t]),
     error |-> Missing, began |-> t,
     stateData |-> [return_domain |-> d, timestamp |-> t],
     exchange |-> "ok", tokens |-> GoogleTokens(u, TRUE), owner |-> u,
     profile |-> "ok", googleUser |-> GoogleProfile(u), signedAt |-> t,
     resp |-> Redirect(ReturnUrl(d,
                Sign(tokenPayload(GoogleProfile(u), GoogleTokens(u, TRUE), d, t),
                     JWT_SECRET), FALSE))]

\* The state the primary flow leaves after u1 signed in for shop-a.com.
AfterSignIn ==
    /\ now = 1500
    /\ oauthStates = <<>>
    /\ timers = {}
    /\ kvTtl = {}
    /\ userSessions =
          IF impl = "worker"
            THEN SessionPut(<<>>, "u1", "shop-a.com",
                   tokenPayload(GoogleProfile("u1"), GoogleTokens("u1", TRUE),
                                "shop-a.com", 1500))
            ELSE <<>>
    /\ nextId = 0
    /\ gStarts = {[domain |-> "shop-a.com",
                   state |-> EncodeState([return_domain |-> "shop-a.com",
                                          timestamp |-> 1500])]}
    /\ googleCbs = <<SignedIn("shop-a.com", "u1", 1500)>>
    /\ airtableCbs = <<>>
    /\ last = [handler |-> "google-auth", domain |-> "shop-a.com", at |-> 1500,
               resp |-> handleGoogleAuth("shop-a.com", 1500)]
    /\ codec = CodecIdle
    /\ page = PageIdle

\* A refused start changes nothing but its answer: the refused starts are sent
\* before the first one that succeeds.
RefusedOnlyAtFirst(tk, d) ==
    IF nextId = 0 THEN TRUE ELSE AirtableAuthRefusal(tk, d, now) = NoResponse

InitAirtable ==
    /\ impl \in {"worker", "express"}
    /\ env \in {[airtableConfigured |-> TRUE], [airtableConfigured |-> FALSE]}
    /\ AfterSignIn

NextAirtable ==
    \/ Tick
    \/ \E tk \in PresentableTokens, d \in Domains \cup {Missing} :
          RefusedOnlyAtFirst(tk, d) /\ AirtableAuth(tk, d)
    \/ \E tm \in timers : TimerFire(tm)
    \/ \E e \in kvTtl : KvExpire(e)
    \/ Sweep
    \/ \E q \in AirtableCallbackRequests : AirtableCallbackBegin(q)
    \/ \E i \in 1..Len(airtableCbs) : AirtableCallbackDelete(i)
    \/ \E i \in 1..Len(airtableCbs), ans \in AirtableAnswers : AirtableBasicAnswer(i, ans)
    \/ \E i \in 1..Len(airtableCbs), ans \in AirtableAnswers : AirtableFallbackAnswer(i, ans)

SpecAirtable == InitAirtable /\ [][NextAirtable]_vars

----------------------------------------------------------------------------
\* The start of the secondary flow on its own, up to the expiry of the token

NextStart ==
    \/ Advance(Instants)
    \/ \E tk \in PresentableTokens, d \in Domains \cup {Missing} : AirtableAuth(tk, d)

SpecStart == InitAirtable /\ [][NextStart]_vars

----------------------------------------------------------------------------
\* Properties of the codec and the guard (checked under SpecCodec)

\* The token under test was signed with the server's secret and not altered.
CodecGenuine == codec.key = JWT_SECRET /\ codec.tamper = "none"

\* Two claim sets are equal field for field.
SameClaims(a, b) ==
    /\ DOMAIN a \subseteq StringKeys \cup {"iat", "exp"}
    /\ \A k \in StringKeys : Get(a, k) = Get(b, k)
    /\ \A k \in {"iat", "exp"} :
         /\ HasNum(a, k) <=> HasNum(b, k)
         /\ HasNum(a, k) => a[k] = b[k]

\* C1: the guard answers 200 only to a token whose domain claim is exactly the
\* requesting domain; a token that verifies for another domain (a case
\* variant and a subdomain included) gets 403 "Token domain mismatch" and no
\* user data.
C1_GuardExactDomain ==
    last.handler = "verify-token" =>
      /\ last.resp.status = 200 =>
           /\ CodecGenuine
           /\ codec.claims.domain = last.domain
           /\ last.resp.body.user.domain = last.domain
      /\ ( /\ last.domain # Missing
           /\ Verify(last.token, JWT_SECRET, last.at).ok
           /\ codec.claims.domain # last.domain )
         => /\ last.resp.status = 403
            /\ last.resp.body = [error |-> "Token domain mismatch"]

C1_Witness ==
    /\ last.handler = "verify-token"
    /\ last.resp.status = 403
    /\ codec.claims.domain = "shop-a.com"
    /\ last.domain \in {"Shop-A.com", "sub.shop-a.com"}

SignedByServer(token) ==
    /\ Len(token) = 3
    /\ token[3] = base64urlEncode(
          HMAC(JWT_SECRET, TextEncode(SigningInput(token[1], token[2]))))

\* C8: verify returns claims only for a three-segment token signed with the
\* server's secret; an altered, foreign-signed or misshapen token is rejected,
\* and one whose signature is wrong is rejected for its shape or signature,
\* never for something read from its payload.
C8_VerifyRejectsForgery ==
    codec.phase = "verified" =>
      /\ codec.result.ok => SignedByServer(codec.token)
      /\ ~CodecGenuine => ~codec.result.ok
      /\ ~SignedByServer(codec.token) =>
            codec.result.error \in {"Invalid JWT format", "InvalidCharacterError",
                                    "Invalid JWT signature"}

C8_Witness ==
    /\ codec.phase = "verified"
    /\ codec.key = JWT_SECRET
    /\ codec.tamper = "payload-domain"
    /\ HasNum(codec.claims, "exp")
    /\ codec.claims.exp # 0
    /\ codec.verifiedAt > codec.claims.exp * 1000
    /\ codec.result.error = "Invalid JWT signature"

\* C9: verify accepts a correctly signed token only if its exp is present, not
\* zero, and strictly greater than the current time.
C9_ExpStrictlyFuture ==
    (codec.phase = "verified" /\ CodecGenuine /\ codec.result.ok)
    => /\ HasNum(codec.claims, "exp")
       /\ codec.claims.exp # 0
       /\ codec.claims.exp * 1000 > codec.verifiedAt

----------------------------------------------------------------------------
\* Properties of the primary flow (checked under Spec)

\* The callbacks that were sent back to a domain with a token.
GoogleIssued == {i \in 1..Len(googleCbs) : googleCbs[i].resp.status = 302}

\* Callback i presents the state of start s with a code, within ten minutes
\* of the start.
PresentsStart(i, s) ==
    /\ googleCbs[i].state = s.state
    /\ Truthy(googleCbs[i].code)
    /\ ~Truthy(googleCbs[i].error)
    /\ googleCbs[i].began - DecodeState(s.state).value.timestamp <= STATE_TTL_MS

\* Both provider calls of callback i have succeeded.
ProvidersSucceeded(i) ==
    /\ googleCbs[i].pc = "done"
    /\ googleCbs[i].exchange = "ok"
    /\ googleCbs[i].profile = "ok"

C10_PrimaryTokenClaims ==
    \A i \in GoogleIssued :
        LET req == googleCbs[i]
            claims == DecodeClaims(req.resp.location.token)
        IN  /\ HasNum(claims, "iat") /\ HasNum(claims, "exp")
            /\ claims.iat = req.signedAt \div 1000
            /\ claims.exp = (req.signedAt \div 1000) + 86400
            /\ Get(claims, "domain") = Get(DecodeState(req.state).value, "return_domain")
            /\ Get(claims, "userId") = Get(req.googleUser, "id")
            /\ Get(claims, "email") = Get(req.googleUser, "email")
            /\ Get(claims, "name") = Get(req.googleUser, "name")
            /\ Get(claims, "picture") = Get(req.googleUser, "picture")
            /\ Get(claims, "googleAccessToken") = Get(req.tokens, "access_token")
            /\ Get(claims, "googleRefreshToken") = Get(req.tokens, "refresh_token")
            /\ Get(claims, "airtableAccessToken") = Null
            /\ Get(claims, "airtableRefreshToken") = Null

\* A token minted later than the start, for a user with a refresh token.
C10_Witness ==
    \E i \in GoogleIssued :
        /\ googleCbs[i].signedAt > googleCbs[i].began
        /\ googleCbs[i].profile = "ok"
        /\ Truthy(Get(googleCbs[i].tokens, "refresh_token"))
        /\ DecodeClaims(googleCbs[i].resp.location.token).exp = 601 + TOKEN_LIFETIME_S

----------------------------------------------------------------------------
\* Properties of the secondary flow (checked under SpecAirtable)

StateIds == {StateId(n) : n \in 1..nextId}

\* The callbacks that were sent back with a re-issued token.
AirtableIssued == {i \in 1..Len(airtableCbs) : airtableCbs[i].resp.status = 302}

\* C3: of the callbacks that carry one state identifier, however their steps
\* interleave, at most one gets past the lookup of the record, and at most one
\* re-issued token is produced.
C3_OneReissuePerState ==
    \A id \in StateIds :
        /\ Cardinality({i \in 1..Len(airtableCbs) :
              airtableCbs[i].state = id /\ airtableCbs[i].found}) <= 1
        /\ Cardinality({i \in AirtableIssued : airtableCbs[i].state = id}) <= 1

\* C4: a callback that arrives after another callback has consumed the record
\* of its state identifier does not find the record, is answered 400 "Invalid
\* or expired authentication session" and gets no token.
C4_ConsumedStateIsGone ==
    \A i \in 1..Len(airtableCbs) :
        (airtableCbs[i].afterConsume /\ Truthy(airtableCbs[i].code)
           /\ ~Truthy(airtableCbs[i].error))
        => /\ ~airtableCbs[i].found
           /\ airtableCbs[i].pc = "done"
           /\ airtableCbs[i].resp =
                Respond(400, Text("Invalid or expired authentication session"))

\* A replay inside the ten-minute window of a flow that had succeeded.
C4_Witness ==
    \E i \in 1..Len(airtableCbs) : \E j \in AirtableIssued :
        /\ j < i
        /\ airtableCbs[i].state = airtableCbs[j].state
        /\ airtableCbs[i].afterConsume
        /\ Truthy(airtableCbs[i].code)
        /\ airtableCbs[i].began - airtableCbs[j].rec.timestamp <= STATE_TTL_MS
        /\ airtableCbs[i].resp.status = 400

\* Callback i has found a record and, at its age check, the record was older
\* than ten minutes.
FoundStale(i) ==
    /\ airtableCbs[i].found
    /\ airtableCbs[i].deleted
    /\ airtableCbs[i].checkedAt - airtableCbs[i].rec.timestamp > STATE_TTL_MS

\* C5: a callback that finds a record older than ten minutes is answered 400,
\* sends no token exchange and issues no token.
C5_StaleRecordRejected ==
    \A i \in 1..Len(airtableCbs) :
        FoundStale(i)
        => /\ airtableCbs[i].pc = "done"
           /\ airtableCbs[i].resp.status = 400
           /\ airtableCbs[i].resp.location = NoLocation
           /\ airtableCbs[i].basic = "none"
           /\ airtableCbs[i].fallback = "none"
           /\ airtableCbs[i].tokens = NoObject

\* The store still held the record one millisecond after the ten minutes.
C5_Witness ==
    \E i \in 1..Len(airtableCbs) :
        /\ FoundStale(i)
        /\ airtableCbs[i].began - airtableCbs[i].rec.timestamp = STATE_TTL_MS + 1
        /\ airtableCbs[i].resp = Respond(400, Text("Authentication session expired"))

\* The claims re-issuing may change.
ReissueChanges == {"airtableAccessToken", "airtableRefreshToken", "iat"}

\* C6: the re-issued token differs from the original token only in the
\* secondary credentials and iat; every other claim, exp included, is the same.
C6_ReissuePreservesClaims ==
    \A i \in AirtableIssued :
        LET new == DecodeClaims(airtableCbs[i].resp.location.token)
            original == DecodeClaims(airtableCbs[i].rec.token)
        IN  /\ HasNum(new, "exp")
            /\ \A k \in (DOMAIN new \cup DOMAIN original) \ ReissueChanges :
                  /\ k \in DOMAIN new
                  /\ k \in DOMAIN original
                  /\ new[k] = original[k]

\* A re-issue ten minutes after the sign-in: iat and the secondary access
\* credential are new.
C6_Witness ==
    \E i \in AirtableIssued :
        LET new == DecodeClaims(airtableCbs[i].resp.location.token)
            original == DecodeClaims(airtableCbs[i].rec.token)
        IN  /\ new.iat > original.iat
            /\ Get(original, "airtableAccessToken") = Null
            /\ Get(new, "airtableAccessToken") = Get(airtableCbs[i].tokens, "access_token")
            /\ Truthy(Get(new, "airtableAccessToken"))
            /\ new.exp = original.exp

----------------------------------------------------------------------------
\* Failures of the primary callback (checked under Spec)

\* Callback i has ended and one of its checks or provider calls had failed:
\* the provider reported an error, code or state was missing, the state did
\* not decode or was older than ten minutes, the code exchange was rejected or
\* gave no access token, or the profile fetch was rejected.
GoogleFailed(i) ==
    /\ googleCbs[i].pc = "done"
    /\ \/ Truthy(googleCbs[i].error)
       \/ ~Truthy(googleCbs[i].code)
       \/ ~DecodeState(googleCbs[i].state).ok
       \/ /\ HasNum(DecodeState(googleCbs[i].state).value, "timestamp")
          /\ googleCbs[i].began
               - DecodeState(googleCbs[i].state).value.timestamp > STATE_TTL_MS
       \/ googleCbs[i].exchange \in {"rejected", "neterr"}
       \/ googleCbs[i].profile \in {"rejected", "neterr"}

\* C11: a primary callback in which anything failed answers 400 or 500 without
\* a token; a token is sent, and a session record written, only after the
\* code exchange and the profile fetch have both succeeded.
C11_NoTokenOnFailure ==
    /\ \A i \in 1..Len(googleCbs) :
          /\ GoogleFailed(i)
               => /\ googleCbs[i].resp.status \in {400, 500}
                  /\ googleCbs[i].resp.location = NoLocation
          /\ i \in GoogleIssued
               => googleCbs[i].exchange = "ok" /\ googleCbs[i].profile = "ok"
    /\ \A k \in DOMAIN userSessions :
          \E i \in GoogleIssued :
              /\ googleCbs[i].exchange = "ok" /\ googleCbs[i].profile = "ok"
              /\ k = <<Get(googleCbs[i].googleUser, "id"),
                       Get(googleCbs[i].stateData, "return_domain")>>

\* Callback i carries a code, no provider error and a state that decodes to an
\* object with a timestamp; its age is taken when the callback arrives.
HasDatedState(i) ==
    /\ Truthy(googleCbs[i].code)
    /\ ~Truthy(googleCbs[i].error)
    /\ DecodeState(googleCbs[i].state).ok
    /\ HasNum(DecodeState(googleCbs[i].state).value, "timestamp")

StateAge(i) == googleCbs[i].began - DecodeState(googleCbs[i].state).value.timestamp

SessionExpired == Respond(400, Text("Authentication session expired"))

\* C12: a primary callback whose state is older than ten minutes is answered
\* 400 "Authentication session expired" before any call to the provider; a
\* state of ten minutes or less is not refused for its age.
C12_PrimaryStateAge ==
    \A i \in 1..Len(googleCbs) :
        HasDatedState(i)
        => /\ StateAge(i) > STATE_TTL_MS
                => /\ googleCbs[i].pc = "done"
                   /\ googleCbs[i].resp = SessionExpired
                   /\ googleCbs[i].exchange = "none"
                   /\ googleCbs[i].profile = "none"
           /\ StateAge(i) <= STATE_TTL_MS => googleCbs[i].resp # SessionExpired

\* One callback at exactly ten minutes goes on to the provider, the next one,
\* a millisecond later, is refused.
C12_Witness ==
    \E i, j \in 1..Len(googleCbs) :
        /\ HasDatedState(i) /\ HasDatedState(j)
        /\ StateAge(i) = STATE_TTL_MS
        /\ googleCbs[i].exchange # "none"
        /\ StateAge(j) = STATE_TTL_MS + 1
        /\ googleCbs[j].resp = SessionExpired

----------------------------------------------------------------------------
\* Refusals of the secondary start (checked under SpecStart)

\* The token's exp is reached: it lies at or before instant t.
ExpiredBy(token, t) ==
    HasNum(DecodeClaims(token), "exp") /\ DecodeClaims(token).exp * 1000 <= t

\* The status the start owes a request: 500 without configuration, 400 without
\* token or domain, 401 for a token that is not the server's or is expired,
\* 403 for a token of another domain, else the redirect.
StartStatus(token, requestDomain, t) ==
    IF ~env.airtableConfigured THEN 500
    ELSE IF token = <<>> \/ ~Truthy(requestDomain) THEN 400
    ELSE IF ~SignedByServer(token) \/ ExpiredBy(token, t) THEN 401
    ELSE IF Get(DecodeClaims(token), "domain") # requestDomain THEN 403
    ELSE 302

\* C13: a start of the secondary flow is answered 500, 400, 401 or 403 in the
\* cases named, and a refused start writes no transaction record, draws no
\* identifier or PKCE verifier and returns no redirect.
C13_StartRefusals ==
    [][(last'.handler = "airtable-auth" /\ last' # last)
        => /\ StartStatus(last'.token, last'.domain, last'.at) # 302
                => last'.resp.status
                     = StartStatus(last'.token, last'.domain, last'.at)
           /\ last'.resp.status # 302
                => /\ last'.resp.status \in {500, 400, 401, 403}
                   /\ last'.resp.location = NoLocation
                   /\ UNCHANGED <<oauthStates, nextId, timers, kvTtl>>]_vars

----------------------------------------------------------------------------
\* Protected operations: POST /api/airtable/bases, POST /api/airtable/create-record

\* What a handler gives back: its response and the third-party calls it made.
Outcome(resp, calls) == [resp |-> resp, calls |-> calls]

\* fetch(url, { headers: { Authorization: `Bearer ${credential}` } })
BearerCall(url, credential) == [url |-> url, bearer |-> credential]

\* The third-party API accepts the call or rejects the credential.
ApiAnswers == {"ok", "rejected"}

\* handleAirtableBases / POST /api/airtable/bases: the token comes in the
\* Authorization header; the handler does not look at any domain.
handleAirtableBases(token, t, ans) ==
    IF token = <<>>
      THEN Outcome(Respond(401, [error |-> "Missing or invalid token"]), <<>>)
    ELSE IF ~Verify(token, JWT_SECRET, t).ok
      THEN Outcome(Respond(500, [error |-> "Failed to fetch bases"]), <<>>)
    ELSE IF ~Truthy(Get(Verify(token, JWT_SECRET, t).payload, "airtableAccessToken"))
      THEN Outcome(Respond(400, [error |-> "No Airtable connection"]), <<>>)
    ELSE Outcome(
           IF ans = "ok" THEN Respond(200, [success |-> TRUE])
           ELSE Respond(500, [error |-> "Failed to fetch bases"]),
           <<BearerCall("https://api.airtable.com/v0/meta/bases",
               Get(Verify(token, JWT_SECRET, t).payload, "airtableAccessToken"))>>)

\* A variant that prefers the key the client sends.
AirtableCredentialClientFirst(decoded, airtableApiKey) ==
    IF Truthy(airtableApiKey) THEN airtableApiKey
    ELSE IF Truthy(Get(decoded, "airtableAccessToken"))
      THEN Get(decoded, "airtableAccessToken")
    ELSE Missing

\* decoded.airtableAccessToken, else airtableApiKey, else none
AirtableCredential(decoded, airtableApiKey) ==
    IF Truthy(Get(decoded, "airtableAccessToken"))
      THEN Get(decoded, "airtableAccessToken")
    ELSE IF Truthy(airtableApiKey) THEN airtableApiKey
    ELSE Missing

\* handleAirtableCreateRecord / POST /api/airtable/create-record
handleAirtableCreateRecord(token, requestDomain, airtableApiKey, baseId, t, ans) ==
    IF token = <<>> \/ ~Truthy(requestDomain)
      THEN Outcome(Respond(400, [error |-> "Token and domain are required"]), <<>>)
    ELSE IF ~Truthy(baseId)
      THEN Outcome(Respond(400, [error |-> "Base ID is required"]), <<>>)
    ELSE IF ~Verify(token, JWT_SECRET, t).ok
      THEN Outcome(Respond(500, [error |-> "Failed to create Airtable record"]), <<>>)
    ELSE IF DomainMismatch(Verify(token, JWT_SECRET, t).payload, requestDomain)
      THEN Outcome(Respond(403, [error |-> "Token domain mismatch"]), <<>>)
    ELSE IF AirtableCredential(Verify(token, JWT_SECRET, t).payload, airtableApiKey)
              = Missing
      THEN Outcome(Respond(400, [error |-> "No Airtable authentication available"]),
                   <<>>)
    ELSE
      LET airtableToken ==
            AirtableCredential(Verify(token, JWT_SECRET, t).payload, airtableApiKey)
      IN  Outcome(
            IF ans = "ok" THEN Respond(200, [success |-> TRUE])
            ELSE Respond(401, [error |-> "Invalid Airtable API key"]),
            <<BearerCall("https://api.airtable.com/v0/base/table?maxRecords=1",
                         airtableToken),
              BearerCall("https://api.airtable.com/v0/base/table", airtableToken)>>)

\* POST /api/airtable/bases sent from a page of requestDomain.
AirtableBases(token, requestDomain, ans) ==
    /\ last' = [handler |-> "airtable-bases", token |-> token,
                domain |-> requestDomain, airtableApiKey |-> Missing,
                baseId |-> Missing, at |-> now,
                resp |-> handleAirtableBases(token, now, ans).resp,
                calls |-> handleAirtableBases(token, now, ans).calls]
    /\ UNCHANGED <<page, impl, env, now, oauthStates, timers, kvTtl, userSessions,
                   nextId, gStarts, googleCbs, airtableCbs, codec>>

\* POST /api/airtable/create-record
AirtableCreateRecord(token, requestDomain, airtableApiKey, baseId, ans) ==
    LET out == handleAirtableCreateRecord(token, requestDomain, airtableApiKey,
                                          baseId, now, ans)
    IN  /\ last' = [handler |-> "airtable-create-record", token |-> token,
                    domain |-> requestDomain, airtableApiKey |-> airtableApiKey,
                    baseId |-> baseId, at |-> now,
                    resp |-> out.resp, calls |-> out.calls]
        /\ UNCHANGED <<page, impl, env, now, oauthStates, timers, kvTtl, userSessions,
                       nextId, gStarts, googleCbs, airtableCbs, codec>>

\* The record of the secondary start of u1 for shop-a.com at 1500.
ConnectState ==
    [token |-> SignedIn("shop-a.com", "u1", 1500).resp.location.token,
     domain |-> "shop-a.com",
     codeVerifier |-> generateCodeVerifier(1),
     timestamp |-> 1500]

\* The callback record of the completed secondary flow.
Connected ==
    LET tokens == [access_token |-> "at-access-1", refresh_token |-> "at-refresh-1"]
    IN  [pc |-> "done", code |-> "at-code", state |-> StateId(1), error |-> Missing,
         began |-> 1500, afterConsume |-> FALSE, found |-> TRUE,
         rec |-> ConnectState, deleted |-> TRUE, checkedAt |-> 1500,
         basic |-> "ok", fallback |-> "none", tokens |-> tokens,
         signedAt |-> 1500,
         resp |-> Redirect(ReturnUrl("shop-a.com",
                    Sign(updatedTokenPayload(
                           DecodeClaims(ConnectState.token), tokens, 1500),
                         JWT_SECRET), TRUE))]

\* The state the flows leave after u1 signed in for shop-a.com and connected
\* the secondary provider.
AfterConnect ==
    /\ env = [airtableConfigured |-> TRUE]
    /\ now = 1500
    /\ oauthStates = <<>>
    /\ timers = IF impl = "express"
                  THEN {[id |-> StateId(1), due |-> 1500 + STATE_TTL_MS]} ELSE {}
    /\ kvTtl = {}
    /\ userSessions =
          IF impl = "worker"
            THEN SessionPut(<<>>, "u1", "shop-a.com",
                   DecodeClaims(Connected.resp.location.token))
            ELSE <<>>
    /\ nextId = 1
    /\ gStarts = {[domain |-> "shop-a.com",
                   state |-> EncodeState([return_domain |-> "shop-a.com",
                                          timestamp |-> 1500])]}
    /\ googleCbs = <<SignedIn("shop-a.com", "u1", 1500)>>
    /\ airtableCbs = <<Connected>>
    /\ last.handler = "airtable-auth"
    /\ last.token = ConnectState.token
    /\ last.domain = "shop-a.com"
    /\ last.at = 1500
    /\ last.resp.status = 302
    /\ codec = CodecIdle
    /\ page = PageIdle

\* The answer of the start that led to Connected.
ConnectStart ==
    [handler |-> "airtable-auth", token |-> ConnectState.token,
     domain |-> "shop-a.com", at |-> 1500,
     resp |-> Redirect(
        [url |-> "https://airtable.com/oauth2/v1/authorize",
         client_id |-> "AIRTABLE_CLIENT_ID",
         redirect_uri |-> CallbackUrl("/auth/airtable/callback"),
         response_type |-> "code",
         scope |-> "data.records:read data.records:write schema.bases:read",
         state |-> StateId(1),
         code_challenge |-> generateCodeChallenge(generateCodeVerifier(1)),
         code_challenge_method |-> "S256"])]

InitApi ==
    /\ impl \in {"worker", "express"}
    /\ last = ConnectStart
    /\ AfterConnect

NextApi ==
    \/ Advance(Instants)
    \/ \E tk \in PresentableTokens, d \in RequestDomains, ans \in ApiAnswers :
          AirtableBases(tk, d, ans)
    \/ \E tk \in PresentableTokens, d \in RequestDomains \cup {Missing},
          key \in {Missing, "key-of-client"}, base \in {Missing, "appBase"},
          ans \in ApiAnswers :
          AirtableCreateRecord(tk, d, key, base, ans)

SpecApi == InitApi /\ [][NextApi]_vars

----------------------------------------------------------------------------
\* Properties of the protected operations (checked under SpecApi)

ProtectedCalls == {"airtable-bases", "airtable-create-record"}

\* C14: a protected operation calls a third party only for a token that
\* verifies and whose domain is the requesting domain.
C14_GuardBeforeSideEffect ==
    (last.handler \in ProtectedCalls /\ last.calls # <<>>)
    => /\ Verify(last.token, JWT_SECRET, last.at).ok
       /\ Get(Verify(last.token, JWT_SECRET, last.at).payload, "domain") = last.domain

\* The claims of the token of the last request, when it passed the guard.
GuardedClaims == Verify(last.token, JWT_SECRET, last.at).payload

PassedGuard ==
    /\ last.token # <<>>
    /\ Truthy(last.domain)
    /\ Verify(last.token, JWT_SECRET, last.at).ok
    /\ Get(GuardedClaims, "domain") = last.domain

\* C15: create-record sends the secondary credential of the token whenever the
\* token has one, sends the key of the client only when the token has none, and
\* with neither answers 400 without calling the provider.
C15_CredentialPreference ==
    (last.handler = "airtable-create-record" /\ PassedGuard /\ Truthy(last.baseId))
    => LET bound == Get(GuardedClaims, "airtableAccessToken")
       IN  /\ Truthy(bound)
                => /\ last.calls # <<>>
                   /\ \A n \in DOMAIN last.calls : last.calls[n].bearer = bound
           /\ (~Truthy(bound) /\ Truthy(last.airtableApiKey))
                => /\ last.calls # <<>>
                   /\ \A n \in DOMAIN last.calls :
                         last.calls[n].bearer = last.airtableApiKey
           /\ (~Truthy(bound) /\ ~Truthy(last.airtableApiKey))
                => /\ last.resp.status = 400
                   /\ last.calls = <<>>

\* A connected token presented together with a client key: the provider is
\* called with the credential of the token.
C15_Witness ==
    /\ last.handler = "airtable-create-record"
    /\ PassedGuard
    /\ Truthy(last.baseId)
    /\ Truthy(Get(GuardedClaims, "airtableAccessToken"))
    /\ Truthy(last.airtableApiKey)
    /\ last.calls # <<>>
    /\ last.calls[1].bearer # last.airtableApiKey

----------------------------------------------------------------------------
\* The secondary flow of the Worker when the KV namespace does not answer

\* The promise of fetch() rejects: the application produces no response.
Uncaught(message) ==
    [status |-> 0, body |-> [uncaught |-> message], location |-> NoLocation]

\* fetch(): `try { ... return handleAirtableAuth(request, domain, env); ... }
\* catch (error) { 500 }`.  The handler's promise is returned without await,
\* so the try block has been left when the promise rejects.
ReturnFromFetch(message) == Uncaught(message)

\* GET /auth/airtable where `await env.OAUTH_STATES.put(...)` throws.
AirtableAuthPutFails(token, requestDomain) ==
    /\ impl = "worker"
    /\ AirtableAuthRefusal(token, requestDomain, now) = NoResponse
    /\ nextId < MaxStarts
    /\ nextId' = nextId + 1
    /\ last' = [handler |-> "airtable-auth", token |-> token,
                domain |-> requestDomain, at |-> now, threw |-> "put",
                resp |-> ReturnFromFetch("KV PUT failed")]
    /\ UNCHANGED <<page, impl, env, now, oauthStates, timers, kvTtl, userSessions,
                   gStarts, googleCbs, airtableCbs, codec>>

\* GET /auth/airtable/callback where `await env.OAUTH_STATES.get(state)` throws.
AirtableCallbackGetFails(q) ==
    /\ impl = "worker"
    /\ AirtableCallbackRefusal(q.code, q.state, q.error) = NoResponse
    /\ Len(airtableCbs) < MaxAirtableCbs
    /\ airtableCbs' = Append(airtableCbs,
          [pc |-> "threw", code |-> q.code, state |-> q.state,
           error |-> q.error, began |-> now,
           afterConsume |-> Consumed(q.state), found |-> FALSE,
           rec |-> NoObject, deleted |-> FALSE, checkedAt |-> 0,
           basic |-> "none", fallback |-> "none", tokens |-> NoObject,
           signedAt |-> 0, resp |-> ReturnFromFetch("KV GET failed")])
    /\ UNCHANGED <<page, impl, env, now, oauthStates, timers, kvTtl, userSessions,
                   nextId, gStarts, googleCbs, last, codec>>

\* The callback has the record and `await env.OAUTH_STATES.delete(state)` throws.
AirtableCallbackDeleteFails(i) ==
    /\ airtableCbs[i].pc = "delete"
    /\ airtableCbs' = [airtableCbs EXCEPT ![i] =
          [@ EXCEPT !.pc = "threw", !.resp = ReturnFromFetch("KV DELETE failed")]]
    /\ UNCHANGED <<page, impl, env, now, oauthStates, timers, kvTtl, userSessions,
                   nextId, gStarts, googleCbs, last, codec>>

\* The Worker with the secondary provider configured, after a sign-in.  The
\* Map of the Express server is memory of the process and cannot fail.
InitFaults ==
    /\ impl = "worker"
    /\ env = [airtableConfigured |-> TRUE]
    /\ AfterSignIn

NextFaults ==
    \/ Advance({1500, 1501 + STATE_TTL_MS})
    \/ \E tk \in PresentableTokens, d \in Domains :
          AirtableAuthRefusal(tk, d, now) = NoResponse /\ AirtableAuth(tk, d)
    \/ \E tk \in PresentableTokens, d \in Domains : AirtableAuthPutFails(tk, d)
    \/ \E e \in kvTtl : KvExpire(e)
    \/ \E q \in AirtableCallbackRequests : AirtableCallbackBegin(q)
    \/ \E q \in AirtableCallbackRequests : AirtableCallbackGetFails(q)
    \/ \E i \in 1..Len(airtableCbs) : AirtableCallbackDelete(i)
    \/ \E i \in 1..Len(airtableCbs) : AirtableCallbackDeleteFails(i)
    \/ \E i \in 1..Len(airtableCbs), ans \in AirtableAnswers : AirtableBasicAnswer(i, ans)
    \/ \E i \in 1..Len(airtableCbs), ans \in AirtableAnswers : AirtableFallbackAnswer(i, ans)

SpecFaults == InitFaults /\ [][NextFaults]_vars

----------------------------------------------------------------------------
\* Properties of the flow with store failures (checked under SpecFaults)

\* C16: a request whose store call failed is answered by the application with
\* status 500 and without a redirect.
C16_StoreFailureIs500 ==
    /\ "threw" \in DOMAIN last
          => last.resp.status = 500 /\ last.resp.location = NoLocation
    /\ \A i \in 1..Len(airtableCbs) :
          airtableCbs[i].pc = "threw"
            => /\ airtableCbs[i].resp.status = 500
               /\ airtableCbs[i].resp.location = NoLocation

----------------------------------------------------------------------------
\* Properties of the flows on replay, redirect targets and PKCE

\* C17: a callback that arrives with a state value for which an earlier
\* callback has already been redirected with a session token is refused on
\* arrival.
C17_PrimaryStateOnce ==
    [][Len(googleCbs') = Len(googleCbs) + 1
         => LET arrived == googleCbs'[Len(googleCbs')]
            IN  (\E i \in GoogleIssued : googleCbs[i].state = arrived.state)
                  => /\ arrived.pc = "done"
                     /\ arrived.resp.status \in {400, 500}]_vars

\* The values a client sends as return_domain: the parameter is any text.
ReturnDomains == Domains \cup {"shop-a.com/app"}

\* The host of the URL `https://${return_domain}/?token=...` that
\* Response.redirect / res.redirect sends the browser to: the authority ends
\* at the first "/".
UrlHost(return_domain) ==
    IF return_domain = "shop-a.com/app" THEN "shop-a.com" ELSE return_domain

\* The primary flow with any text as return_domain.
NextReturn ==
    \/ \E d \in ReturnDomains : GoogleAuth(d)
    \/ \E q \in GoogleCallbackRequests : GoogleCallbackBegin(q)
    \/ \E i \in 1..Len(googleCbs), ans \in GoogleTokenAnswers : GoogleTokenAnswer(i, ans)
    \/ \E i \in 1..Len(googleCbs), kind \in GoogleProfileAnswers :
          GoogleProfileAnswer(i, kind)

SpecReturn == Init /\ [][NextReturn]_vars

\* C18 (primary flow): the host a token-carrying redirect leads to is the
\* domain claim of the token it carries.
C18_RedirectTargetsTokenDomain ==
    \A i \in GoogleIssued :
        UrlHost(googleCbs[i].resp.location.host)
          = Get(DecodeClaims(googleCbs[i].resp.location.token), "domain")

\* The form both exchange requests of a callback carry:
\* new URLSearchParams({ code, grant_type, redirect_uri, code_verifier })
ExchangeForm(req) ==
    [code |-> req.code, grant_type |-> "authorization_code",
     redirect_uri |-> CallbackUrl("/auth/airtable/callback"),
     code_verifier |-> req.rec.codeVerifier]

\* Callback i has sent its exchange request.
ExchangeSent(i) ==
    airtableCbs[i].pc \in {"basic", "fallback"} \/ airtableCbs[i].basic # "none"

\* The verifier drawn by the start that handed out state identifier id.
StartedVerifier(id) ==
    generateCodeVerifier(CHOOSE n \in 1..(MaxStarts + 1) : StateId(n) = id)

\* C19: the challenge a start sends is base64url(SHA-256(verifier)) of the
\* verifier it stores under its state identifier, and every exchange carries
\* the verifier of the start named by the state identifier of its callback.
C19_PkceBinding ==
    /\ (last.handler = "airtable-auth" /\ last.resp.status = 302)
          => LET id == last.resp.location.state
             IN  /\ last.resp.location.code_challenge_method = "S256"
                 /\ last.resp.location.code_challenge
                      = base64urlEncode([sha256 |-> TextEncode(StartedVerifier(id))])
                 /\ id \in DOMAIN oauthStates
                      => LoadState(oauthStates[id]).codeVerifier = StartedVerifier(id)
    /\ \A i \in 1..Len(airtableCbs) :
          ExchangeSent(i)
            => /\ airtableCbs[i].state \in StateIds
               /\ ExchangeForm(airtableCbs[i]).code_verifier
                    = StartedVerifier(airtableCbs[i].state)

\* Two transactions are open and the callback of the first has sent its
\* exchange, while the last start answered with the challenge of the second.
C19_Witness ==
    /\ nextId = 2
    /\ last.handler = "airtable-auth"
    /\ last.resp.status = 302
    /\ last.resp.location.state = StateId(2)
    /\ \E i \in 1..Len(airtableCbs) :
          /\ ExchangeSent(i)
          /\ airtableCbs[i].state = StateId(1)
          /\ ExchangeForm(airtableCbs[i]).code_verifier # StartedVerifier(StateId(2))

----------------------------------------------------------------------------
\* The token exchange of the secondary flow with every kind of answer

\* The token endpoint may also accept a request and answer without tokens.
ExchangeAnswers ==
    AirtableAnswers \cup {[kind |-> "ok", body |-> [token_type |-> "Bearer"]]}

NextExchange ==
    \/ \E tk \in IssuedTokens, d \in Domains :
          AirtableAuthRefusal(tk, d, now) = NoResponse /\ AirtableAuth(tk, d)
    \/ \E q \in AirtableCallbackRequests : AirtableCallbackBegin(q)
    \/ \E i \in 1..Len(airtableCbs) : AirtableCallbackDelete(i)
    \/ \E i \in 1..Len(airtableCbs), ans \in ExchangeAnswers : AirtableBasicAnswer(i, ans)
    \/ \E i \in 1..Len(airtableCbs), ans \in ExchangeAnswers :
          AirtableFallbackAnswer(i, ans)

SpecExchange == InitAirtable /\ [][NextExchange]_vars

\* The answer the callback used was an accepted one.
Accepted(i) == airtableCbs[i].basic = "ok" \/ airtableCbs[i].fallback = "ok"

Rejected == {"rejected", "neterr"}

\* C20: the request with the credentials in the body is sent only after the
\* Basic request was rejected; after an accepted Basic request nothing more is
\* sent; and when the second request is rejected too, or the accepted answer
\* has no access token, the callback ends with 500 and without a token.
C20_ExchangeOrder ==
    \A i \in 1..Len(airtableCbs) :
        LET req == airtableCbs[i]
        IN  /\ (req.pc = "fallback" \/ req.fallback # "none") => req.basic \in Rejected
            /\ req.basic = "ok" => (req.fallback = "none" /\ req.pc = "done")
            /\ (req.fallback \in Rejected
                  \/ (Accepted(i) /\ ~Truthy(Get(req.tokens, "access_token"))))
                 => /\ req.pc = "done"
                    /\ req.resp.status = 500
                    /\ req.resp.location = NoLocation

\* The Basic request was rejected and the second one was accepted with an
\* answer that has no access token.
C20_Witness ==
    \E i \in 1..Len(airtableCbs) :
        /\ airtableCbs[i].basic \in Rejected
        /\ airtableCbs[i].fallback = "ok"
        /\ ~Truthy(Get(airtableCbs[i].tokens, "access_token"))
        /\ airtableCbs[i].resp.status = 500

----------------------------------------------------------------------------
\* Properties of the transaction records (checked under SpecAirtable)

\* C21: the record a callback has found is not in the store any more.
C21_FoundRecordIsGone ==
    \A i \in 1..Len(airtableCbs) :
        airtableCbs[i].found => airtableCbs[i].state \notin DOMAIN oauthStates

\* The request of callback record req carries a provider error, or lacks the
\* code or the state.
IllFormed(req) == Truthy(req.error) \/ ~Truthy(req.code) \/ ~Truthy(req.state)

\* C22: a callback that arrives with a provider error, or without code or
\* state, is answered 400 without looking up its record, and the store, the
\* timers and the expiries are as they were.
C22_EarlyRefusalKeepsRecord ==
    [][Len(airtableCbs') = Len(airtableCbs) + 1
         => LET arrived == airtableCbs'[Len(airtableCbs')]
            IN  IllFormed(arrived)
                  => /\ arrived.pc = "done"
                     /\ arrived.resp.status = 400
                     /\ ~arrived.found
                     /\ UNCHANGED <<oauthStates, timers, kvTtl>>]_vars

\* An ill-formed callback named a state whose record was there, and a later
\* callback with that state found the record.
C22_Witness ==
    \E i, j \in 1..Len(airtableCbs) :
        /\ i < j
        /\ IllFormed(airtableCbs[i])
        /\ airtableCbs[i].state \in StateIds
        /\ airtableCbs[j].state = airtableCbs[i].state
        /\ airtableCbs[j].found
        /\ airtableCbs[j].resp.status = 302

\* The records a step removes from the store without a callback acting.
Expired == {id \in DOMAIN oauthStates : id \notin DOMAIN oauthStates'}

\* C23: the timer and the sweep of the Express server remove only records
\* older than ten minutes.
C23_ExpiryKeepsFreshRecords ==
    [][(impl = "express" /\ airtableCbs' = airtableCbs)
         => \A id \in Expired :
               now - LoadState(oauthStates[id]).timestamp > STATE_TTL_MS]_vars

----------------------------------------------------------------------------
\* Abandoned flows: the clock runs on until every record is due

\* The instants of abandoned flows: starts happen up to LastStart, and the
\* clock reaches the instants at which their records are due and overdue.
LastStart == 1501 + STATE_TTL_MS

ExpiryInstants ==
    FlowInstants \cup {LastStart + STATE_TTL_MS, LastStart + STATE_TTL_MS + 1}

NextExpiry ==
    \/ Advance(ExpiryInstants)
    \/ \E tk \in IssuedTokens, d \in Domains :
          /\ now <= LastStart
          /\ AirtableAuthRefusal(tk, d, now) = NoResponse
          /\ AirtableAuth(tk, d)
    \/ \E tm \in timers : TimerFire(tm)
    \/ \E e \in kvTtl : KvExpire(e)
    \/ Sweep
    \/ \E q \in AirtableCallbackRequests : AirtableCallbackBegin(q)
    \/ \E i \in 1..Len(airtableCbs) : AirtableCallbackDelete(i)

\* Time passes, the event loop runs the timers that are due and the sweep, and
\* the KV store drops the keys whose TTL has passed.
SpecExpiry ==
    /\ InitAirtable
    /\ [][NextExpiry]_vars
    /\ WF_vars(Advance(ExpiryInstants))
    /\ WF_vars(\E tm \in timers : TimerFire(tm))
    /\ WF_vars(\E e \in kvTtl : KvExpire(e))
    /\ WF_vars(Sweep)

\* C24: every record in the store is eventually removed, whether or not a
\* callback arrives for it.
C24_RecordsEventuallyRemoved ==
    \A n \in 1..MaxStarts :
        (StateId(n) \in DOMAIN oauthStates) ~> (StateId(n) \notin DOMAIN oauthStates)

\* Records were written, no callback ever arrived, and the store is empty.
C24_Witness ==
    /\ nextId = MaxStarts
    /\ airtableCbs = <<>>
    /\ DOMAIN oauthStates = {}

----------------------------------------------------------------------------
\* The secondary flow around the expiry of the session token

\* The sign-in, the last instant before the token's exp, the instant of its
\* exp, and the first instant later than 24 hours after the sign-in.
ReverifyInstants == {1500, 86400999, 86401000, 86401501}

NextReverify ==
    \/ Advance(ReverifyInstants)
    \/ \E tk \in IssuedTokens, d \in Domains :
          AirtableAuthRefusal(tk, d, now) = NoResponse /\ AirtableAuth(tk, d)
    \/ \E q \in AirtableCallbackRequests : AirtableCallbackBegin(q)
    \/ \E i \in 1..Len(airtableCbs) : AirtableCallbackDelete(i)
    \/ \E i \in 1..Len(airtableCbs), ans \in AirtableAnswers : AirtableBasicAnswer(i, ans)
    \/ \E i \in 1..Len(airtableCbs), ans \in AirtableAnswers :
          AirtableFallbackAnswer(i, ans)

SpecReverify == InitAirtable /\ [][NextReverify]_vars

\* C25: a token is re-issued only when the stored token, at the time of the
\* re-issue, has not reached its exp, and every re-issued token has iat not
\* later than exp.
C25_ReverifiedAtCallback ==
    \A i \in AirtableIssued :
        LET reissued == DecodeClaims(airtableCbs[i].resp.location.token)
        IN  /\ ~ExpiredBy(airtableCbs[i].rec.token, airtableCbs[i].signedAt)
            /\ reissued.iat <= reissued.exp

\* Token tk belongs to the login that primary callback g completed.
DescendsFrom(tk, g) ==
    LET claims == DecodeClaims(tk)
        login == DecodeClaims(googleCbs[g].resp.location.token)
    IN  /\ Get(claims, "userId") = Get(login, "userId")
        /\ Get(claims, "domain") = Get(login, "domain")
        /\ Get(claims, "googleAccessToken") = Get(login, "googleAccessToken")

\* C26: every token handed out, by a sign-in or by any chain of re-issues,
\* has exp 24 hours after the sign-in it descends from, and is not accepted
\* later than that.
C26_ExpFixedAtLogin ==
    \A tk \in IssuedTokens :
        \E g \in GoogleIssued :
            /\ DescendsFrom(tk, g)
            /\ DecodeClaims(tk).exp
                 = NowSeconds(googleCbs[g].signedAt) + 24 * 60 * 60
            /\ Verify(tk, JWT_SECRET, now).ok
                 => now <= googleCbs[g].signedAt + 24 * 60 * 60 * 1000

\* A token re-issued from a re-issued token, at a time later than 24 hours
\* after the sign-in.
C26_Witness ==
    /\ now > googleCbs[1].signedAt + 24 * 60 * 60 * 1000
    /\ \E i, j \in AirtableIssued :
          /\ airtableCbs[i].rec.token = airtableCbs[j].resp.location.token
          /\ airtableCbs[i].signedAt > airtableCbs[j].signedAt

----------------------------------------------------------------------------
\* POST /api/verify-token as a request: the body may be absent

\* A request without a body.
NoBody == [absent |-> TRUE]

JsonBody(token, requestDomain) ==
    [absent |-> FALSE, token |-> token, domain |-> requestDomain]

\* The Worker reads the body with `await request.json()` inside the try block
\* of the handler; express.json() leaves req.body = {} for a request without a
\* body.
handleVerifyTokenRequest(body, t) ==
    IF body.absent
      THEN IF impl = "worker"
             THEN Respond(401, [valid |-> FALSE, error |-> "Invalid token"])
             ELSE handleVerifyToken(<<>>, Missing, t)
      ELSE handleVerifyToken(body.token, body.domain, t)

VerifyTokenRequest(body) ==
    /\ last' = [handler |-> "verify-token",
                token |-> IF body.absent THEN <<>> ELSE body.token,
                domain |-> IF body.absent THEN Missing ELSE body.domain,
                at |-> now,
                resp |-> handleVerifyTokenRequest(body, now)]
    /\ UNCHANGED <<page, impl, env, now, oauthStates, timers, kvTtl,
                   userSessions, nextId, gStarts, googleCbs, airtableCbs, codec>>

\* The tokens sent to the guard: issued ones, ones with an altered domain, ones
\* signed with another secret, and none.
GuardTokens ==
    PresentableTokens
      \cup {Sign(DecodeClaims(tk), OtherSecret) : tk \in IssuedTokens}

NextGuard ==
    \/ Advance(Instants)
    \/ \E tk \in GuardTokens, d \in RequestDomains \cup {Missing} :
          VerifyTokenRequest(JsonBody(tk, d))
    \/ VerifyTokenRequest(NoBody)

SpecGuard == InitApi /\ [][NextGuard]_vars

\* C27: the guard answers 400 when token or domain is missing, 401 with the
\* same body whatever the domain when the token does not verify, and 403 only
\* for a token that verifies.
C27_GuardOrder ==
    last.handler = "verify-token"
    => LET missing == last.token = <<>> \/ ~Truthy(last.domain)
           verified == Verify(last.token, JWT_SECRET, last.at).ok
       IN  /\ missing => last.resp.status = 400
           /\ (~missing /\ ~verified)
                => last.resp = Respond(401, [valid |-> FALSE, error |-> "Invalid token"])
           /\ last.resp.status = 403 => (~missing /\ verified)

----------------------------------------------------------------------------
\* Further properties of the primary flow (checked under Spec)

\* C28: a primary callback that got as far as the code exchange presented a
\* state with a timestamp at most ten minutes old.
C28_ExchangeNeedsFreshTimestamp ==
    \A i \in 1..Len(googleCbs) :
        (googleCbs[i].pc \in {"exchange", "profile"} \/ googleCbs[i].exchange # "none")
          => /\ HasNum(googleCbs[i].stateData, "timestamp")
             /\ googleCbs[i].began - googleCbs[i].stateData.timestamp <= STATE_TTL_MS

----------------------------------------------------------------------------
\* The callback URL of the primary flow, by the host that receives the request

\* The hosts under which the service is reached.
Hosts == Domains

MaxHostStarts == 2
MaxHostCbs == 2

\* Express: const BACKEND_URL = process.env.BACKEND_URL || "http://localhost:3001"
BACKEND_URL == "https://auth.example"

\* `${env.OAUTH_REDIRECT_URL || url.origin}${path}` in the Worker,
\* `${BACKEND_URL}${path}` in Express
RedirectUri(host, path) ==
    [origin |-> IF impl = "express" THEN BACKEND_URL
                ELSE IF Truthy(env.OAUTH_REDIRECT_URL) THEN env.OAUTH_REDIRECT_URL
                ELSE "https://" \o host,
     path |-> path]

\* The host a callback URL names.
HostOf(uri) ==
    IF uri.origin = BACKEND_URL THEN "auth.example"
    ELSE CHOOSE h \in Hosts : uri.origin = "https://" \o h

\* GET /auth/google?return_domain=... received under host.
GoogleAuthAt(host, return_domain) ==
    LET start == [host |-> host, domain |-> return_domain,
                  state |-> EncodeState([return_domain |-> return_domain,
                                         timestamp |-> now]),
                  redirect_uri |-> RedirectUri(host, "/auth/google/callback")]
    IN  /\ Cardinality(gStarts) < MaxHostStarts
        /\ gStarts' = gStarts \cup {start}
        /\ last' = [handler |-> "google-auth", host |-> host,
                    domain |-> return_domain, at |-> now,
                    resp |-> Redirect(
                      [url |-> "https://accounts.google.com/o/oauth2/v2/auth",
                       client_id |-> "GOOGLE_CLIENT_ID",
                       redirect_uri |-> start.redirect_uri,
                       response_type |-> "code",
                       scope |-> "openid email profile",
                       access_type |-> "offline",
                       state |-> start.state])]
        /\ UNCHANGED <<page, impl, env, now, oauthStates, timers, kvTtl,
                       userSessions, nextId, googleCbs, airtableCbs, codec>>

\* The provider sends the browser to the callback URL of start s; the handler
\* that receives it builds the exchange request.
GoogleExchangeAt(s) ==
    /\ s \in gStarts
    /\ Len(googleCbs) < MaxHostCbs
    /\ ~StateTooOld(DecodeState(s.state).value, now)
    /\ googleCbs' = Append(googleCbs,
          [host |-> HostOf(s.redirect_uri), state |-> s.state, code |-> "g-code",
           began |-> now,
           exchange |-> [code |-> "g-code", client_id |-> "GOOGLE_CLIENT_ID",
                         redirect_uri |-> RedirectUri(HostOf(s.redirect_uri),
                                                      "/auth/google/callback"),
                         grant_type |-> "authorization_code"]])
    /\ UNCHANGED <<page, impl, env, now, oauthStates, timers, kvTtl, userSessions,
                   nextId, gStarts, airtableCbs, last, codec>>

\* The service as deployed: OAUTH_REDIRECT_URL is set or left unset.
InitHosts ==
    /\ impl \in {"worker", "express"}
    /\ env \in {[airtableConfigured |-> TRUE, OAUTH_REDIRECT_URL |-> u] :
                   u \in {Missing, BACKEND_URL}}
    /\ now = 1500
    /\ oauthStates = <<>>
    /\ timers = {}
    /\ kvTtl = {}
    /\ userSessions = <<>>
    /\ nextId = 0
    /\ gStarts = {}
    /\ googleCbs = <<>>
    /\ airtableCbs = <<>>
    /\ last = NoCall
    /\ codec = CodecIdle
    /\ page = PageIdle

NextHosts ==
    \/ Tick
    \/ \E h \in Hosts, d \in Domains : GoogleAuthAt(h, d)
    \/ \E s \in gStarts : GoogleExchangeAt(s)

SpecHosts == InitHosts /\ [][NextHosts]_vars

\* C29: every start sends the same callback URL, whatever the return domain
\* and the host that received the request, and the exchange of a flow sends
\* the callback URL its start sent.
C29_FixedCallbackUrl ==
    /\ \A s1, s2 \in gStarts : s1.redirect_uri = s2.redirect_uri
    /\ \A i \in 1..Len(googleCbs) : \A s \in gStarts :
          (googleCbs[i].state = s.state /\ googleCbs[i].host = HostOf(s.redirect_uri))
            => googleCbs[i].exchange.redirect_uri = s.redirect_uri

----------------------------------------------------------------------------
\* The Express server on two nodes: every process has its own oauthStateStore

Nodes == {"A", "B"}

\* A variant in which the nodes look up one shared store.
NodeStoreShared(stores, node) ==
    [id \in UNION {DOMAIN stores[n] : n \in Nodes} |->
        stores[CHOOSE n \in Nodes : id \in DOMAIN stores[n]][id]]

\* const oauthStateStore = new Map(), in the process of the node
NodeStore(stores, node) == stores[node]

\* GET /auth/airtable handled by node.
NodeAirtableAuth(node, token, requestDomain) ==
    LET stateId == StateId(nextId + 1)
        codeVerifier == generateCodeVerifier(nextId + 1)
        stateData == [token |-> token, domain |-> requestDomain,
                      codeVerifier |-> codeVerifier, timestamp |-> now]
    IN  /\ AirtableAuthRefusal(token, requestDomain, now) = NoResponse
        /\ nextId < MaxStarts
        /\ nextId' = nextId + 1
        /\ oauthStates' = [oauthStates EXCEPT ![node] =
                              StorePut(@, stateId, StoredState(stateData))]
        /\ timers' = timers \cup {[node |-> node, id |-> stateId,
                                    due |-> now + STATE_TTL_MS]}
        /\ last' = [handler |-> "airtable-auth", node |-> node, token |-> token,
                    domain |-> requestDomain, at |-> now,
                    resp |-> Redirect(
                      [url |-> "https://airtable.com/oauth2/v1/authorize",
                       client_id |-> "AIRTABLE_CLIENT_ID",
                       redirect_uri |-> CallbackUrl("/auth/airtable/callback"),
                       response_type |-> "code",
                       scope |-> "data.records:read data.records:write schema.bases:read",
                       state |-> stateId,
                       code_challenge |-> generateCodeChallenge(codeVerifier),
                       code_challenge_method |-> "S256"])]
        /\ UNCHANGED <<page, impl, env, now, kvTtl, userSessions, gStarts, googleCbs,
                       airtableCbs, codec>>

\* The timer a node armed at a start fires in that node.
NodeTimerFire(tm) ==
    /\ tm \in timers
    /\ now >= tm.due
    /\ timers' = timers \ {tm}
    /\ oauthStates' = [oauthStates EXCEPT ![tm.node] = StoreDelete(@, tm.id)]
    /\ UNCHANGED <<page, impl, env, now, kvTtl, userSessions, nextId, gStarts,
                   googleCbs, airtableCbs, last, codec>>

\* The sweep of a node.
NodeSweep(node) ==
    LET stale == {id \in DOMAIN oauthStates[node] :
                    now - oauthStates[node][id].timestamp > STATE_TTL_MS}
    IN  /\ stale # {}
        /\ oauthStates' = [oauthStates EXCEPT ![node] =
                              [k \in DOMAIN @ \ stale |-> @[k]]]
        /\ UNCHANGED <<page, impl, env, now, timers, kvTtl, userSessions, nextId,
                       gStarts, googleCbs, airtableCbs, last, codec>>

\* GET /auth/airtable/callback handled by node: the parameters are checked,
\* the record is looked up in the store of the node and deleted there.
NodeAirtableCallback(node, q) ==
    LET refusal == AirtableCallbackRefusal(q.code, q.state, q.error)
        store == NodeStore(oauthStates, node)
        found == refusal = NoResponse /\ q.state \in DOMAIN store
        req == [pc |-> "done", node |-> node, code |-> q.code, state |-> q.state,
                error |-> q.error, began |-> now,
                afterConsume |-> Consumed(q.state),
                found |-> found,
                rec |-> IF found THEN LoadState(store[q.state]) ELSE NoObject,
                deleted |-> FALSE, checkedAt |-> 0,
                basic |-> "none", fallback |-> "none", tokens |-> NoObject,
                signedAt |-> 0, resp |-> refusal]
    IN  /\ Len(airtableCbs) < MaxAirtableCbs
        /\ airtableCbs' = Append(airtableCbs,
              IF refusal # NoResponse THEN req
              ELSE IF ~found
                THEN [req EXCEPT !.resp =
                        Respond(400, Text("Invalid or expired authentication session"))]
              ELSE AfterDelete(req, now))
        /\ oauthStates' = IF found
                            THEN [oauthStates EXCEPT ![node] = StoreDelete(@, q.state)]
                            ELSE oauthStates
        /\ UNCHANGED <<page, impl, env, now, timers, kvTtl, userSessions, nextId,
                       gStarts, googleCbs, last, codec>>

\* Two Express processes after u1 signed in for shop-a.com.
InitNodes ==
    /\ impl = "express"
    /\ env = [airtableConfigured |-> TRUE]
    /\ now = 1500
    /\ oauthStates = [n \in Nodes |-> <<>>]
    /\ timers = {}
    /\ kvTtl = {}
    /\ userSessions = <<>>
    /\ nextId = 0
    /\ gStarts = {[domain |-> "shop-a.com",
                   state |-> EncodeState([return_domain |-> "shop-a.com",
                                          timestamp |-> 1500])]}
    /\ googleCbs = <<SignedIn("shop-a.com", "u1", 1500)>>
    /\ airtableCbs = <<>>
    /\ last = [handler |-> "google-auth", domain |-> "shop-a.com", at |-> 1500,
               resp |-> handleGoogleAuth("shop-a.com", 1500)]
    /\ codec = CodecIdle
    /\ page = PageIdle

NextNodes ==
    \/ Advance({1500, 1501 + STATE_TTL_MS})
    \/ \E n \in Nodes, tk \in IssuedTokens, d \in Domains : NodeAirtableAuth(n, tk, d)
    \/ \E tm \in timers : NodeTimerFire(tm)
    \/ \E n \in Nodes : NodeSweep(n)
    \/ \E n \in Nodes, q \in AirtableCallbackRequests : NodeAirtableCallback(n, q)
    \/ \E i \in 1..Len(airtableCbs), ans \in AirtableAnswers : AirtableBasicAnswer(i, ans)
    \/ \E i \in 1..Len(airtableCbs), ans \in AirtableAnswers :
          AirtableFallbackAnswer(i, ans)

SpecNodes == InitNodes /\ [][NextNodes]_vars

\* The request of callback record req has a code and a state and no error.
WellFormed(req) == ~Truthy(req.error) /\ Truthy(req.code) /\ Truthy(req.state)

\* C30: a callback handled by a node whose own store has no record for its
\* state is answered 400 and changes no store, so the record of the node that
\* handled the start stays; a callback finds a record only in the store of the
\* node that handles it; and a record leaves the store of a node only through
\* the timer or the sweep of that node or a callback handled by that node.
C30_NodesDoNotShareState ==
    [][/\ Len(airtableCbs') = Len(airtableCbs) + 1
          => LET arrived == airtableCbs'[Len(airtableCbs')]
             IN  /\ (WellFormed(arrived)
                       /\ arrived.state \notin DOMAIN oauthStates[arrived.node])
                      => /\ ~arrived.found
                         /\ arrived.resp = Respond(400,
                               Text("Invalid or expired authentication session"))
                         /\ oauthStates' = oauthStates
                 /\ arrived.found => arrived.state \in DOMAIN oauthStates[arrived.node]
                 /\ \A n \in Nodes \ {arrived.node} : oauthStates'[n] = oauthStates[n]
       /\ \A i \in 1..Len(airtableCbs') :
             airtableCbs'[i].resp.status = 302 => airtableCbs'[i].found]_vars

\* A callback reached node B while the record of its state was in the store of
\* node A: it was answered 400 and the record is still there.
C30_Witness ==
    \E i \in 1..Len(airtableCbs) :
        /\ airtableCbs[i].node = "B"
        /\ WellFormed(airtableCbs[i])
        /\ airtableCbs[i].resp.status = 400
        /\ airtableCbs[i].state \in DOMAIN oauthStates["A"]

----------------------------------------------------------------------------
\* The Worker and the Express server side by side on POST /api/verify-token

\* handleVerifyToken with the answer v of the verifier of one implementation
\* (verifyJWT in the Worker, jwt.verify in Express).
handleVerifyTokenBy(v, token, requestDomain) ==
    IF token = <<>> \/ ~Truthy(requestDomain)
      THEN Respond(400, [error |-> "Token and domain are required"])
    ELSE IF ~v.ok THEN Respond(401, [valid |-> FALSE, error |-> "Invalid token"])
    ELSE IF DomainMismatch(v.payload, requestDomain)
      THEN Respond(403, [error |-> "Token domain mismatch"])
    ELSE Respond(200,
           [valid |-> TRUE,
            user |-> JSONstringify(
               [userId |-> Get(v.payload, "userId"),
                email |-> Get(v.payload, "email"),
                name |-> Get(v.payload, "name"),
                picture |-> Get(v.payload, "picture"),
                domain |-> Get(v.payload, "domain")]).json])

\* C31: the Worker and the Express server give the same status to the request
\* that was just answered, at the same clock.
C31_SameStatus ==
    last.handler = "verify-token"
    => handleVerifyTokenBy(verifyJWT(last.token, JWT_SECRET, last.at),
                           last.token, last.domain).status
         = handleVerifyTokenBy(jwtVerify(last.token, JWT_SECRET, last.at),
                               last.token, last.domain).status

----------------------------------------------------------------------------
\* The Worker's session store (checked under Spec and SpecAirtable)

\* C32: every record of the session store holds, under the key of user u and
\* domain d, a claim set whose userId is u and whose domain is d.
C32_SessionKeyMatchesClaims ==
    \A k \in DOMAIN userSessions :
        LET claims == JSONparse(userSessions[k]).value
        IN  Get(claims, "userId") = k[1] /\ Get(claims, "domain") = k[2]

\* A secondary callback writes no record other than the one of the user and
\* domain of the token it re-issued.
SecondaryWritesOwnRecord ==
    [][\A i \in 1..Len(airtableCbs) :
          (airtableCbs[i].pc # "done" /\ airtableCbs'[i].pc = "done"
             /\ airtableCbs'[i].resp.status = 302)
          => LET claims == DecodeClaims(airtableCbs'[i].resp.location.token)
                 own == SessionKey(Get(claims, "userId"), Get(claims, "domain"))
             IN  /\ \A k \in DOMAIN userSessions' \ {own} :
                        k \in DOMAIN userSessions
                          /\ userSessions'[k] = userSessions[k]
                 /\ impl = "worker" => userSessions'[own] = JSONstringify(claims)]_vars

----------------------------------------------------------------------------
\* What the guard's success response shows (checked under SpecGuard)

\* The claims that hold credentials of the providers.
CredentialKeys ==
    {"googleAccessToken", "googleRefreshToken",
     "airtableAccessToken", "airtableRefreshToken"}

CredentialValues == {Null, "another-credential"}

\* Two claim sets that differ at most in provider credentials.
SameButCredentials(c1, c2) ==
    \A k \in (DOMAIN c1 \cup DOMAIN c2) \ CredentialKeys :
        k \in DOMAIN c1 /\ k \in DOMAIN c2 /\ c1[k] = c2[k]

\* C33: a success response of the guard holds only userId, email, name,
\* picture and domain, and is the response given to every valid token for the
\* same domain that differs from the presented one only in provider
\* credentials.
C33_ResponseIgnoresCredentials ==
    (last.handler = "verify-token" /\ last.resp.status = 200)
    => LET claims == DecodeClaims(last.token)
       IN  /\ DOMAIN last.resp.body = {"valid", "user"}
           /\ DOMAIN last.resp.body.user
                \subseteq {"userId", "email", "name", "picture", "domain"}
           /\ \A k \in CredentialKeys, v \in CredentialValues :
                 handleVerifyToken(Sign(With(claims, k, v), JWT_SECRET),
                                   last.domain, last.at) = last.resp
           /\ \A tk \in IssuedTokens :
                 SameButCredentials(claims, DecodeClaims(tk))
                   => handleVerifyToken(tk, last.domain, last.at) = last.resp

\* The guard accepted a token, and another issued token differs from it only
\* in the secondary credentials.
C33_Witness ==
    /\ last.handler = "verify-token" /\ last.resp.status = 200
    /\ \E tk \in IssuedTokens :
          /\ tk # last.token
          /\ SameButCredentials(DecodeClaims(last.token), DecodeClaims(tk))
          /\ Get(DecodeClaims(tk), "airtableAccessToken")
               # Get(DecodeClaims(last.token), "airtableAccessToken")

----------------------------------------------------------------------------
\* The signing key as configuration: JWT_SECRET may be absent from the
\* environment

MaxKeyCbs == 2

\* The secret written into server.js.
BuiltinSecret == "your-super-secret-jwt-key-change-this-in-production"

\* Express: process.env.JWT_SECRET || "your-super-secret-...";  the Worker
\* passes env.JWT_SECRET as it is.
ConfiguredSecret ==
    IF impl = "express"
      THEN IF Truthy(env.JWT_SECRET) THEN env.JWT_SECRET ELSE BuiltinSecret
      ELSE env.JWT_SECRET

\* crypto.subtle.importKey("raw", encoder.encode(secret), HMAC): encode() of
\* undefined is the empty byte string, and Web Crypto refuses an empty HMAC key
\* with a DataError.
importKey(secret) ==
    IF Truthy(secret) THEN [ok |-> TRUE, key |-> TextEncode(secret)]
    ELSE [ok |-> FALSE, error |-> "DataError"]

\* signJWT(payload, env.JWT_SECRET) / jwt.sign(payload, JWT_SECRET)
SignConfigured(payload) ==
    IF impl = "worker"
      THEN IF importKey(ConfiguredSecret).ok
             THEN [ok |-> TRUE, token |-> signJWT(payload, ConfiguredSecret)]
             ELSE importKey(ConfiguredSecret)
      ELSE [ok |-> TRUE, token |-> jwtSign(payload, ConfiguredSecret)]

\* verifyJWT(token, env.JWT_SECRET) / jwt.verify(token, JWT_SECRET)
VerifyConfigured(token, t) ==
    IF impl = "worker"
      THEN IF Len(token) # 3 \/ importKey(ConfiguredSecret).ok
             THEN verifyJWT(token, ConfiguredSecret, t)
             ELSE importKey(ConfiguredSecret)
      ELSE jwtVerify(token, ConfiguredSecret, t)

\* A primary callback for user u with a fresh state for domain d, whose code
\* exchange and profile fetch succeed: the token is signed with the configured
\* key; a failure to sign lands in the handler's catch.
GoogleCallbackConfigured(u, d) ==
    LET payload == tokenPayload(GoogleProfile(u), GoogleTokens(u, TRUE), d, now)
        signed == SignConfigured(payload)
        resp == IF signed.ok
                  THEN Redirect(ReturnUrl(d, signed.token, FALSE))
                  ELSE Respond(500, Text("Authentication failed: " \o signed.error))
    IN  /\ Len(googleCbs) < MaxKeyCbs
        /\ googleCbs' = Append(googleCbs,
                           [owner |-> u, domain |-> d, signedAt |-> now,
                            resp |-> resp])
        /\ userSessions' = IF signed.ok /\ impl = "worker"
                             THEN SessionPut(userSessions, u, d, payload)
                             ELSE userSessions
        /\ last' = [handler |-> "google-callback", token |-> <<>>,
                    domain |-> d, at |-> now, resp |-> resp]
        /\ UNCHANGED <<page, impl, env, now, oauthStates, timers, kvTtl, nextId,
                       gStarts, airtableCbs, codec>>

\* POST /api/verify-token {token, domain} with the configured key.
VerifyTokenConfigured(token, requestDomain) ==
    /\ last' = [handler |-> "verify-token", token |-> token,
                domain |-> requestDomain, at |-> now,
                resp |-> handleVerifyTokenBy(VerifyConfigured(token, now),
                                             token, requestDomain)]
    /\ UNCHANGED <<page, impl, env, now, oauthStates, timers, kvTtl,
                   userSessions, nextId, gStarts, googleCbs, airtableCbs, codec>>

\* Tokens anyone can make who has read server.js.
BuiltinTokens ==
    {Sign(tokenPayload(GoogleProfile("u1"), GoogleTokens("u1", TRUE), d, 1500),
          BuiltinSecret) : d \in Domains}

InitKey ==
    /\ impl \in {"worker", "express"}
    /\ env \in {[airtableConfigured |-> TRUE, JWT_SECRET |-> s] :
                   s \in {Undefined, JWT_SECRET}}
    /\ now = 1500
    /\ oauthStates = <<>>
    /\ timers = {}
    /\ kvTtl = {}
    /\ userSessions = <<>>
    /\ nextId = 0
    /\ gStarts = {}
    /\ googleCbs = <<>>
    /\ airtableCbs = <<>>
    /\ last = NoCall
    /\ codec = CodecIdle
    /\ page = PageIdle

NextKey ==
    \/ Advance({1500, (1 + TOKEN_LIFETIME_S) * 1000 + 1})
    \/ \E u \in {"u1", "u2"}, d \in Domains : GoogleCallbackConfigured(u, d)
    \/ \E tk \in IssuedTokens \cup BuiltinTokens, d \in Domains :
          VerifyTokenConfigured(tk, d)

SpecKey == InitKey /\ [][NextKey]_vars

\* C34: with no signing secret configured the server signs no token and
\* accepts none as verified.
C34_NoKeyNoToken ==
    ~Truthy(env.JWT_SECRET)
    => /\ IssuedTokens = {}
       /\ \A i \in 1..Len(googleCbs) : googleCbs[i].resp.status = 500
       /\ last.handler = "verify-token" => last.resp.status # 200

----------------------------------------------------------------------------
\* The page's session bootstrap (HomePage, useEffect on load)

\* A token as the page holds it: its dot-separated segments, and whether the
\* payload segment contains one of the URL-safe characters - and _.
PageToken(text, urlChars) == [text |-> text, urlChars |-> urlChars]

\* atob(str): throws on a character outside the standard alphabet, which
\* includes the URL-safe - and _; missing padding is tolerated.
atob(str, urlChars) ==
    IF "b64url" \in DOMAIN str /\ ~urlChars
      THEN [ok |-> TRUE, str |-> TextDecode(str.b64url)]
      ELSE [ok |-> FALSE, error |-> "InvalidCharacterError"]

\* JSON.parse(atob(token.split(".")[1])): the signature is not looked at.
\* (A token without a dot gives atob("undefined"), which throws.)
PagePayload(token) ==
    IF Len(token.text) < 2 THEN [ok |-> FALSE, error |-> "InvalidCharacterError"]
    ELSE LET decoded == atob(token.text[2], token.urlChars)
         IN  IF decoded.ok THEN JSONparse(decoded.str) ELSE decoded

\* payload.exp && payload.exp < Date.now() / 1000
PageExpired(payload, t) ==
    HasNum(payload, "exp") /\ payload.exp # 0 /\ payload.exp * 1000 < t

\* setUser({...})
PageUser(payload) ==
    [id |-> Get(payload, "userId"),
     email |-> Get(payload, "email"),
     name |-> Get(payload, "name"),
     domain |-> Get(payload, "domain"),
     googleAccessToken |-> Get(payload, "googleAccessToken"),
     googleRefreshToken |-> Get(payload, "googleRefreshToken"),
     airtableAccessToken |-> Get(payload, "airtableAccessToken"),
     airtableRefreshToken |-> Get(payload, "airtableRefreshToken")]

\* The page is loaded, with or without ?token=... in its URL.  The component
\* starts with user = null.
PageLoad(tokenFromUrl) ==
    LET tokenFromStorage == page.authToken
        token == IF tokenFromUrl # NoStoredToken THEN tokenFromUrl
                 ELSE tokenFromStorage
        decoded == PagePayload(token)
    IN  /\ page' =
              IF token = NoStoredToken
                THEN [page EXCEPT !.user = NoUser, !.token = token, !.at = now]
              ELSE IF ~decoded.ok
                THEN [page EXCEPT !.authToken = NoStoredToken, !.user = NoUser,
                                  !.token = token, !.at = now]
              ELSE IF Get(decoded.value, "domain") # page.hostname
                THEN [page EXCEPT !.authToken = NoStoredToken, !.user = NoUser,
                                  !.token = token, !.at = now]
              ELSE IF PageExpired(decoded.value, now)
                THEN [page EXCEPT !.authToken = NoStoredToken, !.user = NoUser,
                                  !.token = token, !.at = now]
              ELSE [page EXCEPT !.authToken = token,
                                !.user = PageUser(decoded.value),
                                !.token = token, !.at = now]
        /\ UNCHANGED <<impl, env, now, oauthStates, timers, kvTtl, userSessions,
                       nextId, gStarts, googleCbs, airtableCbs, last, codec>>

handleLogout ==
    /\ page' = [page EXCEPT !.authToken = NoStoredToken, !.user = NoUser]
    /\ UNCHANGED <<impl, env, now, oauthStates, timers, kvTtl, userSessions,
                   nextId, gStarts, googleCbs, airtableCbs, last, codec>>

\* The claim sets of the tokens a URL may carry: issued at 1500 ms for either
\* domain, as issued, with exp zero and without exp.
PagePayloads ==
    LET issued == {tokenPayload(GoogleProfile("u1"), GoogleTokens("u1", TRUE),
                                d, 1500) : d \in Domains}
    IN  issued \cup {With(p, "exp", 0) : p \in issued}
               \cup {[k \in DOMAIN p \ {"exp"} |-> p[k]] : p \in issued}

\* The tokens a URL may carry: signed by the server or by anyone else, text
\* that is no token, and a token whose payload is not JSON.
PageTokens ==
    {PageToken(signJWT(p, s), c) :
        p \in PagePayloads, s \in {JWT_SECRET, OtherSecret}, c \in BOOLEAN}
      \cup {PageToken(<<[notBase64 |-> "%%"]>>, FALSE),
            PageToken(<<base64urlEncode(JSONstringify(JwtHeader)),
                        base64urlEncode(Text("not json")),
                        [notBase64 |-> "%%"]>>, FALSE)}

PageInstants ==
    {1500, (1 + TOKEN_LIFETIME_S) * 1000, (1 + TOKEN_LIFETIME_S) * 1000 + 1}

InitPage ==
    /\ impl \in {"worker", "express"}
    /\ env = [airtableConfigured |-> TRUE]
    /\ now = 1500
    /\ oauthStates = <<>>
    /\ timers = {}
    /\ kvTtl = {}
    /\ userSessions = <<>>
    /\ nextId = 0
    /\ gStarts = {}
    /\ googleCbs = <<>>
    /\ airtableCbs = <<>>
    /\ last = NoCall
    /\ codec = CodecIdle
    /\ page \in {[hostname |-> h, authToken |-> NoStoredToken, user |-> NoUser,
                  token |-> NoStoredToken, at |-> 0] : h \in Domains}

NextPage ==
    \/ Advance(PageInstants)
    \/ \E tk \in PageTokens \cup {NoStoredToken} : PageLoad(tk)
    \/ handleLogout

SpecPage == InitPage /\ [][NextPage]_vars

\* C35: a user is logged in only from a token whose domain claim is the
\* hostname and whose exp was not in the past at the load; a load with a token
\* of another domain, an expired token or an undecodable one leaves no stored
\* token and no user; the stored token, if any, is one for the hostname.
C35_BootstrapChecksToken ==
    /\ page.user # NoUser
         => LET payload == PagePayload(page.token).value
            IN  /\ Get(payload, "domain") = page.hostname
                /\ HasNum(payload, "exp") => payload.exp * 1000 >= page.at
    /\ (page.token # NoStoredToken
          /\ (~PagePayload(page.token).ok
                \/ Get(PagePayload(page.token).value, "domain") # page.hostname
                \/ (HasNum(PagePayload(page.token).value, "exp")
                      /\ PagePayload(page.token).value.exp * 1000 < page.at)))
         => page.authToken = NoStoredToken /\ page.user = NoUser
    /\ page.authToken # NoStoredToken
         => Get(PagePayload(page.authToken).value, "domain") = page.hostname

====
